---- MODULE Spec2Model ----
(***************************************************************************)
(* The research orchestration engine of src/app/actions/research-v3.ts:   *)
(* runDeepResearchV3 and the functions it drives (generateTopicChains,     *)
(* executeTopicChain, executeNode, synthesizeReport), the two p-limit      *)
(* limiters and the streamable value of src/lib/ai/stream-helper.ts.       *)
(*                                                                         *)
(* JavaScript runs one task to completion; the only nondeterminism of a    *)
(* run is which pending capability call (generate, search, getQuote,       *)
(* saveReport) returns next and with what outcome.  Each action below is   *)
(* the return of one call together with everything the code then does      *)
(* before it next waits for a call.                                        *)
(***************************************************************************)
EXTENDS Integers, Sequences, FiniteSets, TLC

\* pLimit(5): the limiter of generation and search calls
CallLimit == 5
\* pLimit(2): the limiter of concurrently executing chains
ChainLimit == 2

\* Bounds of the plans the planning call may return
MaxNodes == 2
MaxQuestions == 2

VARIABLES
    pc,               \* where the async body of runDeepResearchV3 waits
    status,           \* currentState.status
    planned,          \* currentState.plan is set
    plan,             \* currentState.plan: chains of nodes of questions
    topics,           \* currentState.plan: the topic of each chain
    completedChains,  \* currentState.completedChains (chain indices, completion order)
    logs,             \* currentState.logs
    report,           \* currentState.report
    error,            \* currentState.error (<<>> while undefined)
    investigation,    \* currentState.investigation (<<>> while undefined)
    reportId,         \* currentState.reportId (<<>> while undefined)
    totalTokens,      \* currentState.totalTokens (<<>> while undefined)
    local,            \* locals of the async body: totalUsage, report,
                      \* investigation, totalTokens
    snapshots,        \* the lines written to the stream
    closed,           \* writer.close() has been called
    limQueue,         \* limit: calls waiting for a slot, FIFO
    limActive,        \* limit: calls holding a slot
    inflight,         \* calls dispatched to the generate / search capability
    ret,              \* what each returned capability call returned
    chainQueue,       \* chainLimit: chains waiting for a slot, FIFO
    chainActive,      \* chainLimit: chains holding a slot
    chain,            \* per chain: the state of executeTopicChain / executeNode
    peer,             \* a second run of runDeepResearchV3 in the same process
    page,             \* the state of the report page that reads the stream
    channel,          \* a streamable value and its reader, at the level of bytes
    request           \* one call of generateWithOpenAICompatible

vars == <<pc, status, planned, plan, topics, completedChains, logs, report, error,
          investigation, reportId, totalTokens, local, snapshots, closed,
          limQueue, limActive, inflight, ret, chainQueue, chainActive, chain,
          peer, page, channel, request>>

\* No streamable value has been created
NoChannel == [open |-> FALSE]

\* No report page reads the stream
NoPage == [read |-> 0]

\* No second run has been started
NoPeer == [run |-> 0]

\* No generation call to the OpenAI-compatible provider is under study
NoRequest == [phase |-> "none"]

\* The variables of a run of runDeepResearchV3
runVars == <<pc, status, planned, plan, topics, completedChains, logs, report, error,
             investigation, reportId, totalTokens, local, snapshots, closed,
             limQueue, limActive, inflight, ret, chainQueue, chainActive, chain,
             peer>>

\* The variables of a run and of the page that reads its stream
pageVars == <<runVars, page>>

\* body(v) for v the value of s: the state a function is called with is
\* computed once, however often the function reads it
With(s, body(_)) == CHOOSE t \in {body(v) : v \in {s}} : TRUE

\* The program state as one record, so that the code's functions are operators
\* from state to state.
St == [pc |-> pc, status |-> status, planned |-> planned, plan |-> plan,
       topics |-> topics,
       completedChains |-> completedChains, logs |-> logs, report |-> report,
       error |-> error, investigation |-> investigation, reportId |-> reportId,
       totalTokens |-> totalTokens, local |-> local, snapshots |-> snapshots, closed |-> closed,
       limQueue |-> limQueue, limActive |-> limActive, inflight |-> inflight,
       ret |-> ret, chainQueue |-> chainQueue, chainActive |-> chainActive,
       chain |-> chain, peer |-> peer]

Commit(s) ==
    \E next \in {s} :
      /\ pc' = next.pc
      /\ status' = next.status
      /\ planned' = next.planned
      /\ plan' = next.plan
      /\ topics' = next.topics
      /\ completedChains' = next.completedChains
      /\ logs' = next.logs
      /\ report' = next.report
      /\ error' = next.error
      /\ investigation' = next.investigation
      /\ reportId' = next.reportId
      /\ totalTokens' = next.totalTokens
      /\ local' = next.local
      /\ snapshots' = next.snapshots
      /\ closed' = next.closed
      /\ limQueue' = next.limQueue
      /\ limActive' = next.limActive
      /\ inflight' = next.inflight
      /\ ret' = next.ret
      /\ chainQueue' = next.chainQueue
      /\ chainActive' = next.chainActive
      /\ chain' = next.chain
      /\ peer' = next.peer
      /\ UNCHANGED <<page, channel, request>>

----------------------------------------------------------------------------
\* Plans, capability calls and their outcomes

\* A node is its list of questions (a question is its text, a number);
\* a chain is a list of nodes; a plan is a list of chains.
Questions(n) == [q \in 1..n |-> q]
Chains(nc, nn, nq) == [c \in 1..nc |-> [k \in 1..nn |-> Questions(nq)]]

\* The planner's questions are taken as they are (nodeData.questions || []):
\* a value that is no array, such as one string, is written as the list that
\* holds 0, which is no question text, and has no map method
NotAnArray == << 0 >>
IsArray(questions) == \A q \in DOMAIN questions : questions[q] > 0

\* The fallback chain of generateTopicChains: one topic, one node, two questions
FallbackChains == << << Questions(2) >> >>

\* The most chains a plan of the model has: one more than chainLimit admits
ManyChains == ChainLimit + 1

\* A first chain without steps, then chains of one node with one question
MixedPlan == [c \in 1..ManyChains |-> IF c = 1 THEN <<>> ELSE << Questions(1) >>]

\* One node asking the same question more often than the call limiter has slots
WidePlan == << << [q \in 1..(CallLimit + 1) |-> 1] >> >>

\* One chain whose first node asks the same question several times and whose
\* second node asks it once
RepeatPlan == << << [q \in 1..MaxQuestions |-> 1], Questions(1) >> >>

Plans ==
    {Chains(nc, 1, 1) : nc \in 0..ManyChains}
        \cup {Chains(1, nn, 1) : nn \in 0..MaxNodes}
        \cup {Chains(1, 1, nq) : nq \in 0..MaxQuestions}
        \cup {MixedPlan}

\* The text of the planning response: without a {...} span, with a span that
\* JSON.parse rejects, with an object without a topics array, or with topics.
\* A topic's name is a text; <<>> stands for a name that is absent or empty.
NamedText(p, names) == [kind |-> "topics", topics |-> p, names |-> names]
TopicsText(p) == NamedText(p, [c \in 1..Len(p) |-> <<>>])
OtherText(k) == [kind |-> k, topics |-> <<>>, names |-> <<>>]
\* generateTextWithModel rejects
NoText == [kind |-> "throw", topics |-> <<>>, names |-> <<>>]
PlanTexts ==
    {OtherText(k) : k \in {"nojson", "badjson", "notopics"}}
        \cup {TopicsText(p) : p \in Plans}
\* Two chains that contend for the call limiter: the first asks one question,
\* the second asks the same question more often than the limiter has slots
ContendedPlan == << << Questions(1) >>, << [q \in 1..(CallLimit + 1) |-> 1] >> >>
ContendedTexts == {TopicsText(ContendedPlan)}

\* ManyChains chains of one node, the first with questions that are no array
MalformedPlan ==
    [c \in 1..ManyChains |-> IF c = 1 THEN << NotAnArray >> ELSE << Questions(1) >>]
MalformedTexts == {TopicsText(MalformedPlan), TopicsText(Chains(1, 1, 1))}

\* The planning texts of the runs checked for progress: the plans of at most
\* ChainLimit chains of one node, and the mixed plan of ManyChains chains
LivePlans ==
    {Chains(nc, 1, 1) : nc \in 0..ChainLimit}
        \cup {Chains(1, nn, 1) : nn \in 0..MaxNodes}
        \cup {Chains(1, 1, nq) : nq \in 0..MaxQuestions}
        \cup {MixedPlan}
LiveTexts ==
    {OtherText(k) : k \in {"nojson", "badjson", "notopics"}}
        \cup {TopicsText(p) : p \in LivePlans}
WideTexts == {TopicsText(WidePlan), TopicsText(Chains(2, 1, 1)), OtherText("badjson")}
RepeatTexts == {TopicsText(RepeatPlan), OtherText("badjson")}

\* A call is <<kind, chain, node, question index>> (0 where it does not apply)
PlanCall == <<"plan", 0, 0, 0>>
QuoteCall == <<"quote", 0, 0, 0>>
SynthCall == <<"synth", 0, 0, 0>>
SaveCall == <<"save", 0, 0, 0>>
SearchCall(c, k, q) == <<"search", c, k, q>>
ExtractCall(c, k) == <<"extract", c, k, 0>>
ReasonCall(c, k) == <<"reason", c, k, 0>>

\* searchWeb: rejects, returns one result without content, or one with content
SearchOutcomes == {"fail", "blank", "hit"}
\* the outcomes of searchWeb in the runs of the wide plan
WideOutcomes == {"fail", "hit"}
\* the outcome of searchWeb in the runs of the contended plan
HitOutcomes == {"hit"}
\* the fact-extraction response: the call rejects, the text has no [...] span,
\* the span is not JSON, or it is an array of 0 or 1 facts
ExtractOutcomes == {"throw", "noarray", "badjson", "facts0", "facts1"}
ReasonOutcomes == {"throw", "text"}
\* the synthesis response
SynthOutcomes == {"throw", "nojson", "badjson", "badshape", "valid"}
QuoteOutcomes == {"fail", "ok"}
\* saveReport rejects, or returns the saved row with its id
SaveOutcomes == {"fail", "id1", "id2"}

\* The usage a generation call reports with its response: token counts that
\* differ from call to call
Usage(call) ==
    [inputTokens |-> 3 + 2 * call[2] + call[3],
     outputTokens |-> IF call[1] \in {"plan", "synth"} THEN 2 ELSE 1]

\* The initial totalUsage accumulator
ZeroUsage == [inputTokens |-> 0, outputTokens |-> 0]

\* total = usage in place of total += usage
ReplaceUsage(total, usage) == usage

\* totalUsage.inputTokens += usage.inputTokens, and the same for outputTokens
AddUsage(total, usage) ==
    [inputTokens |-> total.inputTokens + usage.inputTokens,
     outputTokens |-> total.outputTokens + usage.outputTokens]

Returned(s, call) == call \in DOMAIN s.ret

----------------------------------------------------------------------------
\* Stream and log collector

Snapshot(s) ==
    [status |-> s.status, planned |-> s.planned,
     completedChains |-> s.completedChains, logs |-> s.logs,
     report |-> s.report, error |-> s.error,
     investigation |-> s.investigation, reportId |-> s.reportId,
     totalTokens |-> s.totalTokens]

\* stream.update: writer.write of a closed writer writes nothing
StreamUpdate(s) ==
    With(s, LAMBDA v :
        IF v.closed THEN v ELSE [v EXCEPT !.snapshots = Append(@, Snapshot(v))])

\* The writer is closed without a last write
StreamCloseOnly(s) == [s EXCEPT !.closed = TRUE]

\* stream.done
StreamDone(s) == [StreamUpdate(s) EXCEPT !.closed = TRUE]

LogEntry(type, msg, c, k, q, n) ==
    [type |-> type, msg |-> msg, chain |-> c, node |-> k, question |-> q, n |-> n,
     steps |-> <<>>]

\* The plan-summary log of generateTopicChains: the number of chains, and in
\* its data the number of steps of each topic
PlanSummary(chains) ==
    [LogEntry("strategist_plan", "planned", 0, 0, 0, Len(chains))
        EXCEPT !.steps = [c \in 1..Len(chains) |-> Len(chains[c])]]

\* The callback puts the new log first: unshift in place of push
AddFirst(s, log) == StreamUpdate([s EXCEPT !.logs = << log >> \o @])

\* collector.add with the onLog callback of runDeepResearchV3
Add(s, log) == StreamUpdate([s EXCEPT !.logs = Append(@, log)])

----------------------------------------------------------------------------
\* limit = pLimit(5)

\* The limiter is one object of the module: it also holds the calls of the
\* other run, each marked as the other run's
OfPeer(call) == << "peer" >> \o call
IsOfPeer(entry) == Len(entry) = 5
Retag(entry) == IF IsOfPeer(entry) THEN Tail(entry) ELSE OfPeer(entry)

\* The search is made without its search_query log
StartCallSilent(s, call) == [s EXCEPT !.inflight = @ \cup {call}]

\* The function handed to limit starts: a search logs its query and calls
\* searchWeb, the others call generateTextWithModel.
StartCall(s, call) ==
    With(s, LAMBDA v :
        LET s1 == IF call[1] = "search"
                  THEN Add(v, LogEntry("search_query", "query", call[2], call[3],
                                       v.plan[call[2]][call[3]][call[4]], 0))
                  ELSE v
        IN  [s1 EXCEPT !.inflight = @ \cup {call}])

\* A limiter for each run: only the run's own calls count against the limit
LimitOwn(s, call) ==
    IF Cardinality({entry \in s.limActive : ~IsOfPeer(entry)}) < CallLimit
    THEN StartCall([s EXCEPT !.limActive = @ \cup {call}], call)
    ELSE [s EXCEPT !.limQueue = Append(@, call)]

\* A call made without the limiter
Unlimited(s, call) == StartCall(s, call)

\* limit(fn): run fn when fewer than CallLimit calls hold a slot, else queue it
Limit(s, call) ==
    With(s, LAMBDA v :
        IF Cardinality(v.limActive) < CallLimit
        THEN StartCall([v EXCEPT !.limActive = @ \cup {call}], call)
        ELSE [v EXCEPT !.limQueue = Append(@, call)])

\* The slot is freed and the queue is left as it is
LimitNextIdle(s, call) == [s EXCEPT !.limActive = @ \ {call}]

\* The call settles: its slot is freed and the head of the queue starts, in
\* the run that made it
LimitNext(s, call) ==
    With([s EXCEPT !.limActive = @ \ {call}], LAMBDA s1 :
        IF s1.limQueue # <<>> /\ Cardinality(s1.limActive) < CallLimit
        THEN With([s1 EXCEPT !.limActive = @ \cup {Head(s1.limQueue)},
                             !.limQueue = Tail(@)], LAMBDA s2 :
                 IF IsOfPeer(Head(s1.limQueue))
                 THEN [s2 EXCEPT !.peer.state =
                                     StartCall(@, Tail(Head(s1.limQueue)))]
                 ELSE StartCall(s2, Head(s1.limQueue)))
        ELSE s1)

\* A capability call returns `out`
Return(s, call, out) ==
    [s EXCEPT !.inflight = @ \ {call}, !.ret = (call :> out) @@ @]

----------------------------------------------------------------------------
\* executeNode

\* A search task without its catch block
SearchTaskUncaught(out) ==
    IF out = "fail"
    THEN [threw |-> TRUE, msg |-> "failed", n |-> 0, content |-> FALSE]
    ELSE [threw |-> FALSE, msg |-> "found", n |-> 1, content |-> out = "hit"]

\* The try/catch around searchWeb: what one question's task does with the
\* outcome of its search.  threw: the task rejects.
SearchTask(out) ==
    IF out = "fail"
    THEN [threw |-> FALSE, msg |-> "failed", n |-> 0, content |-> FALSE]
    ELSE [threw |-> FALSE, msg |-> "found", n |-> 1, content |-> out = "hit"]

\* Fact extraction without its catch block
ExtractFactsUncaught(out) ==
    [threw |-> out \in {"throw", "badjson"},
     findings |-> IF out = "facts1" THEN 1 ELSE 0]

\* The try/catch around the fact-extraction call and the parse of its text
ExtractFacts(out) ==
    [threw |-> FALSE, findings |-> IF out = "facts1" THEN 1 ELSE 0]

\* The intent the planner wrote for node k of chain c (nodeData.intent || "")
Intent(c, k) == << c, k >>

\* let reasoning = "": no reasoning
NoReasoning == [kind |-> "", facts |-> 0, intent |-> << >>]

\* reasoningResponse.text.trim(): the model's own text
ModelReasoning == [kind |-> "model", facts |-> 0, intent |-> << >>]

\* The default sentence: "Found N facts related to INTENT"
DefaultReasoning(findings, intent) ==
    [kind |-> "default", facts |-> findings, intent |-> intent]

\* The reasoning call without its catch block
ReasonTextUncaught(out, findings, intent) ==
    [threw |-> out = "throw", reasoning |-> ModelReasoning]

\* The try/catch around the reasoning call: the model's text, or the default
\* sentence built from the fact count and the intent
ReasonText(out, findings, intent) ==
    [threw |-> FALSE,
     reasoning |-> IF out = "text" THEN ModelReasoning
                   ELSE DefaultReasoning(findings, intent)]

NodeQuestions(s, c, k) == s.plan[c][k]

\* Promise.race in place of Promise.all
AnySearchSettled(s, c, k) ==
    \E q \in 1..Len(NodeQuestions(s, c, k)) : Returned(s, SearchCall(c, k, q))

\* Promise.all(searchPromises) has resolved
SearchesSettled(s, c, k) ==
    \A q \in 1..Len(NodeQuestions(s, c, k)) : Returned(s, SearchCall(c, k, q))

\* searchResults.flat(): the questions, in order, whose result has content
AllSearchResults(s, c, k) ==
    LET HasContent(q) == /\ Returned(s, SearchCall(c, k, q))
                         /\ SearchTask(s.ret[SearchCall(c, k, q)]).content
    IN  SelectSeq([q \in 1..Len(NodeQuestions(s, c, k)) |-> q], HasContent)

\* success taken from the search results instead of the findings
ExecutionResultBySearch(findings, reasoning, searchResults) ==
    [success |-> searchResults # <<>>, findings |-> findings,
     reasoning |-> reasoning, searchResults |-> searchResults]

\* The ExecutionResult that executeNode returns
ExecutionResult(findings, reasoning, searchResults) ==
    [success |-> findings > 0, findings |-> findings, reasoning |-> reasoning,
     searchResults |-> searchResults]

\* id: `topic-${topicIndex + 1}-node-${nodeIndex + 1}` (the node of the
\* fallback chain has an id of its own, written the same way here)
NodeId(c, k) == << "topic", c, "node", k >>

\* Node k of chain c as generateTopicChains made it: its id, the planner's
\* intent (and, likewise, step_name and next_logic_step) and questions, no
\* findings and no reasoning
PlannedNode(s, c, k) ==
    [id |-> NodeId(c, k), intent |-> Intent(c, k), questions |-> s.plan[c][k],
     findings |-> 0, reasoning |-> NoReasoning]

\* The updated node is built from the result alone, without the planned node
UpdatedNodeBare(node, result) ==
    [id |-> << >>, intent |-> << >>, questions |-> << >>,
     findings |-> result.findings, reasoning |-> result.reasoning]

\* { ...node, findings: result.findings, reasoning: result.reasoning }
UpdatedNode(node, result) ==
    [node EXCEPT !.findings = result.findings, !.reasoning = result.reasoning]

InitialChain ==
    [phase |-> "queued", topic |-> <<>>, node |-> 0, agg |-> <<>>, findings |-> 0,
     nodeUsage |-> ZeroUsage, usage |-> ZeroUsage,
     results |-> <<>>, updated |-> <<>>]

RECURSIVE LimitSearches(_, _, _, _)
RECURSIVE ExecuteNode(_, _, _)
RECURSIVE NodeLoop(_, _, _)
RECURSIVE RecordNode(_, _, _, _)
RECURSIVE ChainReturns(_, _)
RECURSIVE ChainRejects(_, _)
RECURSIVE ChainNext(_, _)
RECURSIVE StartChain(_, _)
RECURSIVE AdmitChains(_)

\* node.questions.map(question => limit(...)), from question q on
LimitSearches(s, c, k, q) ==
    With(s, LAMBDA v :
        IF q > Len(NodeQuestions(v, c, k)) THEN v
        ELSE LimitSearches(Limit(v, SearchCall(c, k, q)), c, k, q + 1))

\* executeNode returns: executeTopicChain records the node and goes on
NodeReturns(s, c, k, reasoning) ==
    With(s, LAMBDA v :
        RecordNode(v, c, k,
                   ExecutionResult(v.chain[c].findings, reasoning, v.chain[c].agg)))

\* The reasoning call is made whether or not facts were extracted
GenerateReasoningAlways(s, c, k) ==
    Limit([s EXCEPT !.chain[c].phase = "reason"], ReasonCall(c, k))

\* After fact extraction: the reasoning call, made only when there are findings
GenerateReasoning(s, c, k) ==
    With(s, LAMBDA v :
        IF v.chain[c].findings > 0
        THEN Limit([v EXCEPT !.chain[c].phase = "reason"], ReasonCall(c, k))
        ELSE NodeReturns(v, c, k, NoReasoning))

\* After Promise.all: aggregate, and extract facts when there is a result
Aggregate(s, c, k) ==
    With(s, LAMBDA v :
        LET agg == AllSearchResults(v, c, k)
            s1 == [v EXCEPT !.chain[c].agg = agg]
        IN  IF agg # <<>>
            THEN Limit(Add([s1 EXCEPT !.chain[c].phase = "extract"],
                           LogEntry("analysis_progress", "extracting", c, k, 0,
                                    Len(agg))),
                       ExtractCall(c, k))
            ELSE GenerateReasoning(s1, c, k))

\* executeNode, up to its first wait
ExecuteNode(s, c, k) ==
    With(Add(s, LogEntry("mission_start", "node", c, k, 0, 0)), LAMBDA s1 :
        LET s2 == [s1 EXCEPT !.chain[c].node = k, !.chain[c].phase = "search",
                             !.chain[c].agg = <<>>, !.chain[c].findings = 0,
                             !.chain[c].nodeUsage = ZeroUsage]
        IN  IF ~IsArray(NodeQuestions(s1, c, k)) THEN ChainRejects(s1, c)
            ELSE With(LimitSearches(s2, c, k, 1), LAMBDA s3 :
                     IF SearchesSettled(s3, c, k) THEN Aggregate(s3, c, k)
                     ELSE s3))

----------------------------------------------------------------------------
\* executeTopicChain

\* for (const node of chain.chain): node k, or the return after the last node
NodeLoop(s, c, k) ==
    With(s, LAMBDA v :
        IF k > Len(v.plan[c]) THEN ChainReturns(v, c) ELSE ExecuteNode(v, c, k))

\* The next node is started before this node's result is recorded
RecordNodeLate(s, c, k, result) ==
    LET s1 == NodeLoop(s, c, k + 1)
        s2 == [s1 EXCEPT !.chain[c].usage = AddUsage(@, s.chain[c].nodeUsage),
                         !.chain[c].results = Append(@, result),
                         !.chain[c].updated =
                             Append(@, UpdatedNode(PlannedNode(s, c, k), result))]
    IN  Add(s2, LogEntry("analysis_progress", "completed", c, k, 0,
                         result.findings))

\* The loop body after executeNode: push the updated node, log its completion
RecordNode(s, c, k, result) ==
    With(s, LAMBDA v :
        LET s1 == [v EXCEPT !.chain[c].usage = AddUsage(@, v.chain[c].nodeUsage),
                            !.chain[c].results = Append(@, result),
                            !.chain[c].updated =
                                Append(@, UpdatedNode(PlannedNode(v, c, k), result))]
            s2 == Add(s1, LogEntry("analysis_progress", "completed", c, k, 0,
                                   result.findings))
        IN  NodeLoop(s2, c, k + 1))

----------------------------------------------------------------------------
\* runDeepResearchV3: the chains under chainLimit = pLimit(2)

\* What a failed capability call throws: the clients wrap every failure in
\* an Error whose message starts with a fixed text
Thrown(call) ==
    [isError |-> TRUE,
     message |-> IF call[1] = "quote" THEN "Failed to fetch quote"
                 ELSE "Failed to generate text"]

\* What a rejected chain task throws
Rejection == [isError |-> TRUE, message |-> "rejected"]

\* error instanceof Error ? error.message : "Unknown error"
ErrorMessage(thrown) ==
    IF thrown.isError THEN thrown.message ELSE "Unknown error"

\* The catch block publishes a fresh state holding only the error
CatchReset(s, thrown) ==
    StreamDone([s EXCEPT !.status = "error",
                         !.error = << ErrorMessage(thrown) >>,
                         !.logs = << LogEntry("analysis_progress", "error", 0, 0, 0, 0) >>,
                         !.completedChains = <<>>,
                         !.planned = FALSE,
                         !.pc = "done"])

\* The catch block: one log line, the error state, the stream is closed
Catch(s, thrown) ==
    LET s1 == Add(s, LogEntry("analysis_progress", "error", 0, 0, 0, 0))
    IN  StreamDone([s1 EXCEPT !.status = "error",
                              !.error = << ErrorMessage(thrown) >>,
                              !.pc = "done"])

\* The completed status is published when the chains finish, before synthesis
SynthesizeCompletedEarly(s) ==
    Limit(Add(StreamUpdate([s EXCEPT !.pc = "synth", !.status = "completed"]),
              LogEntry("analysis_progress", "synth", 0, 0, 0, 0)),
          SynthCall)

\* synthesizeReport, up to its generation call
Synthesize(s) ==
    Limit(Add([s EXCEPT !.pc = "synth"],
              LogEntry("analysis_progress", "synth", 0, 0, 0, 0)),
          SynthCall)

RECURSIVE ChainsUsage(_, _, _)
\* for (const r of chainResults): total plus the usage of the chains c..
ChainsUsage(s, c, total) ==
    IF c > Len(s.plan) THEN total
    ELSE ChainsUsage(s, c + 1, AddUsage(total, s.chain[c].usage))

\* The orchestrator adds the usage of every chain to its totalUsage
SumChainUsage(s) ==
    With(s, LAMBDA v : [v EXCEPT !.local.usage = ChainsUsage(v, 1, @)])

\* Promise.race in place of Promise.all: the first chain to resolve is enough
AnyChainDone(s) == \E c \in 1..Len(s.plan) : s.chain[c].phase = "done"

\* Promise.all(chainPromises) resolves once every chain has resolved
AllChainsDone(s) == \A c \in 1..Len(s.plan) : s.chain[c].phase = "done"

\* Promise.all(chainPromises) never resolves: the chains finish and the
\* orchestrator does not go on
ChainNextStops(s, c) ==
    With([s EXCEPT !.chainActive = @ \ {c}], LAMBDA s1 :
        IF s1.chainQueue # <<>> /\ Cardinality(s1.chainActive) < ChainLimit
        THEN StartChain([s1 EXCEPT !.chainQueue = Tail(@)], Head(s1.chainQueue))
        ELSE s1)

\* chainLimit frees the slot of chain c and starts the next queued chain;
\* the orchestrator goes on once every chain has finished
ChainNext(s, c) ==
    With([s EXCEPT !.chainActive = @ \ {c}], LAMBDA s1 :
        IF s1.chainQueue # <<>> /\ Cardinality(s1.chainActive) < ChainLimit
        THEN StartChain([s1 EXCEPT !.chainQueue = Tail(@)], Head(s1.chainQueue))
        ELSE IF s1.pc = "chains" /\ AllChainsDone(s1)
             THEN Synthesize(SumChainUsage(s1))
        ELSE s1)

\* The chain's task assigns [updatedChain] in place of pushing to the array
ChainReturnsOverwrite(s, c) ==
    ChainNext(StreamUpdate([s EXCEPT !.chain[c].phase = "done",
                                     !.completedChains = << c >>]),
              c)

\* The chain's task resolves: push the updated chain, republish
ChainReturns(s, c) ==
    ChainNext(StreamUpdate([s EXCEPT !.chain[c].phase = "done",
                                     !.completedChains = Append(@, c)]),
              c)

\* The chain's task rejects: Promise.all rejects at the first rejection
ChainRejects(s, c) ==
    With([s EXCEPT !.chain[c].phase = "rejected"], LAMBDA s1 :
        ChainNext(IF s1.pc = "chains" THEN Catch(s1, Rejection) ELSE s1, c))

\* chainLimit runs the task of chain c: executeTopicChain up to its first wait
StartChain(s, c) ==
    With(s, LAMBDA v :
        LET s1 == [v EXCEPT !.chainActive = @ \cup {c},
                            !.chain[c].phase = "running",
                            !.chain[c].topic = v.topics[c]]
            s2 == Add(s1, LogEntry("mission_start", "chain", c, 0, 0,
                                   Len(v.plan[c])))
        IN  NodeLoop(s2, c, 1))

RECURSIVE AdmitAllChains(_)
\* Every chain is started at once, without chainLimit
AdmitAllChains(s) ==
    IF s.chainQueue # <<>>
    THEN AdmitAllChains(StartChain([s EXCEPT !.chainQueue = Tail(@)], Head(s.chainQueue)))
    ELSE s

\* chains.map(chain => chainLimit(...)): the queued chains start while slots are free
AdmitChains(s) ==
    With(s, LAMBDA v :
        IF v.chainQueue # <<>> /\ Cardinality(v.chainActive) < ChainLimit
        THEN AdmitChains(StartChain([v EXCEPT !.chainQueue = Tail(@)],
                                    Head(v.chainQueue)))
        ELSE v)

\* Stage 2 waits for a chain to finish even when the plan has none
ExecuteChainsWaits(s) ==
    AdmitChains([s EXCEPT !.pc = "chains",
                          !.chainQueue = [c \in 1..Len(s.plan) |-> c]])

\* Stage 2 of runDeepResearchV3
ExecuteChains(s) ==
    With(s, LAMBDA v :
        LET s1 == [v EXCEPT !.pc = "chains",
                            !.chainQueue = [c \in 1..Len(v.plan) |-> c]]
        IN  IF Len(v.plan) = 0 THEN Synthesize(SumChainUsage(s1))
            ELSE AdmitChains(s1))

----------------------------------------------------------------------------
\* generateTopicChains and synthesizeReport: the parse of the response text

\* The chains parsed from the planning text: the regular expression finds no
\* {...} span (chains stays []), JSON.parse throws (the catch block assigns the
\* fallback chain), the object has no topics array (chains stays []), or the
\* topics are mapped to chains.
ParseTopicChains(text) ==
    IF text.kind = "nojson" THEN <<>>
    ELSE IF text.kind = "badjson" THEN FallbackChains
    ELSE IF text.kind = "notopics" THEN <<>>
    ELSE text.topics

\* topicData.topic || `Topic ${topicIndex + 1}`
DefaultTopic(c) == << "Topic", c >>

\* The topic of the fallback chain
FallbackTopic == << "Competitive Analysis" >>

\* The topics of the chains parsed from the planning text
ParseTopics(text) ==
    IF text.kind = "nojson" THEN <<>>
    ELSE IF text.kind = "badjson" THEN << FallbackTopic >>
    ELSE IF text.kind = "notopics" THEN <<>>
    ELSE [c \in 1..Len(text.topics) |->
            IF text.names[c] = <<>> THEN DefaultTopic(c) ELSE text.names[c]]

\* The ticker the run was started with
Ticker == "TICK"

\* synthesizeReport without the schema validation of the parsed object
ParseReportLenient(out) ==
    IF out \in {"valid", "badshape"} THEN "parsed" ELSE "fallback"

\* Whether the try block of synthesizeReport yields the parsed report or its
\* catch block the fallback: no {...} span throws, JSON.parse throws, or
\* DeepDiveReportSchema.parse throws
ParseReport(out) == IF out = "valid" THEN "parsed" ELSE "fallback"

RECURSIVE FindingsIn(_, _)
\* The number of findings of the nodes 1..k of an updated chain
FindingsIn(updated, k) ==
    IF k = 0 THEN 0 ELSE FindingsIn(updated, k - 1) + updated[k].findings

RECURSIVE AllFindings(_, _)
\* chains.flatMap(chain => chain.chain.flatMap(node => node.findings))
\* .length, over the chains 1..c of chainResults
AllFindings(s, c) ==
    IF c = 0 THEN 0
    ELSE AllFindings(s, c - 1)
            + FindingsIn(s.chain[c].updated, Len(s.chain[c].updated))

\* The report of the catch block: its narrative_arc and verdict are built
\* from the ticker, allFindings.length and chains.length
FallbackReport(ticker, facts, chains) ==
    [kind |-> "fallback", ticker |-> ticker, facts |-> facts, chains |-> chains]

\* The report the model wrote, accepted by the schema; its text is the
\* model's own
ValidatedReport == [kind |-> "parsed", ticker |-> "", facts |-> 0, chains |-> 0]

\* The report synthesizeReport returns for the response text
SynthesizeReport(s, out) ==
    With(s, LAMBDA v :
        IF ParseReport(out) = "parsed" THEN ValidatedReport
        ELSE FallbackReport(Ticker, AllFindings(v, Len(v.plan)), Len(v.plan)))

\* Every node of a chain counts as completed
CompletedInAll(updated) == Len(updated)

\* chain.filter(node => node.findings.length > 0).length
CompletedIn(updated) ==
    Cardinality({k \in 1..Len(updated) : updated[k].findings > 0})

RECURSIVE TotalNodes(_, _)
\* completedChains.reduce((sum, chain) => sum + chain.chain.length, 0),
\* over the chains 1..c of chainResults
TotalNodes(s, c) ==
    IF c = 0 THEN 0 ELSE TotalNodes(s, c - 1) + Len(s.chain[c].updated)

RECURSIVE CompletedNodes(_, _)
\* completedChains.reduce((sum, chain) => sum + (nodes with findings), 0)
CompletedNodes(s, c) ==
    IF c = 0 THEN 0 ELSE CompletedNodes(s, c - 1) + CompletedIn(s.chain[c].updated)

\* topicChains is taken from currentState.completedChains (completion order)
InvestigationAsCompleted(s) ==
    [topicChains |-> [i \in 1..Len(s.completedChains) |->
                         s.chain[s.completedChains[i]].updated],
     totalNodes |-> TotalNodes(s, Len(s.plan)),
     completedNodes |-> CompletedNodes(s, Len(s.plan))]

\* The totals are taken from the first chain alone
InvestigationOfFirst(s) ==
    [topicChains |-> [c \in 1..Len(s.plan) |-> s.chain[c].updated],
     totalNodes |-> TotalNodes(s, IF s.plan = <<>> THEN 0 ELSE 1),
     completedNodes |-> CompletedNodes(s, IF s.plan = <<>> THEN 0 ELSE 1)]

\* The ResearchInvestigation built from chainResults (plan order)
Investigation(s) ==
    With(s, LAMBDA v :
        [topicChains |-> [c \in 1..Len(v.plan) |-> v.chain[c].updated],
         totalNodes |-> TotalNodes(v, Len(v.plan)),
         completedNodes |-> CompletedNodes(v, Len(v.plan))])

----------------------------------------------------------------------------
\* The actions: the run starts, or a capability call returns

\* The locals and the first stream line of a call of runDeepResearchV3, and
\* the limiter of the module, before the async body has run
InitialState ==
    [pc |-> "created", status |-> "initializing", planned |-> FALSE,
     plan |-> <<>>, topics |-> <<>>, completedChains |-> <<>>, logs |-> <<>>,
     report |-> <<>>, error |-> <<>>, investigation |-> <<>>,
     reportId |-> <<>>, totalTokens |-> <<>>,
     local |-> [usage |-> ZeroUsage, report |-> <<>>, investigation |-> <<>>,
                totalTokens |-> 0],
     snapshots |-> << [status |-> "initializing", planned |-> FALSE,
                       completedChains |-> <<>>, logs |-> <<>>,
                       report |-> <<>>, error |-> <<>>, investigation |-> <<>>,
                       reportId |-> <<>>, totalTokens |-> <<>>] >>,
     closed |-> FALSE, limQueue |-> <<>>, limActive |-> {}, inflight |-> {},
     ret |-> <<>>, chainQueue |-> <<>>, chainActive |-> {}, chain |-> <<>>,
     peer |-> NoPeer]

\* The variables of the run hold the state s
Holds(s) ==
    /\ pc = s.pc
    /\ status = s.status
    /\ planned = s.planned
    /\ plan = s.plan
    /\ topics = s.topics
    /\ completedChains = s.completedChains
    /\ logs = s.logs
    /\ report = s.report
    /\ error = s.error
    /\ investigation = s.investigation
    /\ reportId = s.reportId
    /\ totalTokens = s.totalTokens
    /\ local = s.local
    /\ snapshots = s.snapshots
    /\ closed = s.closed
    /\ limQueue = s.limQueue
    /\ limActive = s.limActive
    /\ inflight = s.inflight
    /\ ret = s.ret
    /\ chainQueue = s.chainQueue
    /\ chainActive = s.chainActive
    /\ chain = s.chain
    /\ peer = s.peer

\* One call of runDeepResearchV3 has been made
InitRun == Holds(InitialState)

\* A run, with no streamable value under study
Init == InitRun /\ page = NoPage /\ channel = NoChannel /\ request = NoRequest

\* The async body of runDeepResearchV3 up to the planning call
StartRun ==
    /\ pc = "created"
    /\ LET s1 == Add(St, LogEntry("strategist_plan", "start", 0, 0, 0, 0))
           s2 == StreamUpdate([s1 EXCEPT !.status = "planning"])
           s3 == Add(s2, LogEntry("strategist_plan", "planning", 0, 0, 0, 0))
       IN  Commit(Limit([s3 EXCEPT !.pc = "planning"], PlanCall))

\* The planning call returns: the rest of generateTopicChains, then the
\* orchestrator records the plan and fetches the quote
\* currentState.plan is not assigned before the researching state is published
PlanNotRecorded(texts) ==
    /\ PlanCall \in inflight
    /\ \E out \in {NoText} \cup texts :
         LET s1 == LimitNext(Return(St, PlanCall, out), PlanCall)
             chains == ParseTopicChains(out)
             s2 == Add(s1, PlanSummary(chains))
             s3 == [s2 EXCEPT !.local.usage = AddUsage(@, Usage(PlanCall)),
                              !.plan = chains, !.topics = ParseTopics(out),
                              !.status = "researching",
                              !.chain = [c \in 1..Len(chains) |-> InitialChain]]
         IN  IF out.kind = "throw" THEN Commit(Catch(s1, Thrown(PlanCall)))
             ELSE Commit([StreamUpdate(s3) EXCEPT !.pc = "quote"])

PlanReturnsFrom(texts) ==
    /\ PlanCall \in inflight
    /\ \E out \in {NoText} \cup texts :
         LET s1 == LimitNext(Return(St, PlanCall, out), PlanCall)
             chains == ParseTopicChains(out)
             s2 == Add(s1, PlanSummary(chains))
             s3 == [s2 EXCEPT !.local.usage = AddUsage(@, Usage(PlanCall)),
                              !.plan = chains, !.topics = ParseTopics(out),
                              !.planned = TRUE,
                              !.status = "researching",
                              !.chain = [c \in 1..Len(chains) |-> InitialChain]]
         IN  IF out.kind = "throw" THEN Commit(Catch(s1, Thrown(PlanCall)))
             ELSE Commit([StreamUpdate(s3) EXCEPT !.pc = "quote"])

PlanReturns == PlanReturnsFrom(PlanTexts)

\* A failure of the quote fetch is swallowed and the chains run without it
QuoteReturnsCaught ==
    /\ pc = "quote"
    /\ \E out \in QuoteOutcomes :
         Commit(ExecuteChains([St EXCEPT !.ret = (QuoteCall :> out) @@ @]))

\* getAdapterForTicker and adapter.getQuote return or throw
QuoteReturns ==
    /\ pc = "quote"
    /\ \E out \in QuoteOutcomes :
         LET s1 == [St EXCEPT !.ret = (QuoteCall :> out) @@ @]
         IN  IF out = "fail" THEN Commit(Catch(s1, Thrown(QuoteCall)))
             ELSE Commit(ExecuteChains(s1))

\* searchWeb returns for question q of node k of chain c, with one of the
\* given outcomes
SearchReturnsFrom(outcomes) ==
    \E call \in inflight, out \in outcomes :
      /\ call[1] = "search"
      /\ LET c == call[2]
             k == call[3]
             task == SearchTask(out)
             s1 == Return(St, call, out)
             s2 == IF task.threw THEN s1
                   ELSE Add(s1, LogEntry("search_results", task.msg, c, k,
                                         s1.plan[c][k][call[4]], task.n))
         IN  \E s3 \in {LimitNext(s2, call)} :
               LET waiting == s3.chain[c].phase = "search" /\ s3.chain[c].node = k
               IN  IF ~waiting THEN Commit(s3)
                   ELSE IF task.threw THEN Commit(ChainRejects(s3, c))
                   ELSE IF SearchesSettled(s3, c, k)
                        THEN Commit(Aggregate(s3, c, k))
                   ELSE Commit(s3)

SearchReturns == SearchReturnsFrom(SearchOutcomes)

\* The fact-extraction call of chain c's current node returns
ExtractReturns ==
    \E call \in inflight, out \in ExtractOutcomes :
      /\ call[1] = "extract"
      /\ LET c == call[2]
             k == call[3]
             facts == ExtractFacts(out)
             s1 == LimitNext(Return(St, call, out), call)
             s2 == [s1 EXCEPT !.chain[c].findings = facts.findings,
                              !.chain[c].nodeUsage =
                                  IF out = "throw" THEN @
                                  ELSE AddUsage(@, Usage(call))]
         IN  IF facts.threw THEN Commit(ChainRejects(s1, c))
             ELSE Commit(GenerateReasoning(s2, c, k))

\* The reasoning call of chain c's current node returns
ReasonReturns ==
    \E call \in inflight, out \in ReasonOutcomes :
      /\ call[1] = "reason"
      /\ LET c == call[2]
             k == call[3]
             text == ReasonText(out, chain[c].findings, Intent(c, k))
             s1 == LimitNext(Return(St, call, out), call)
             s2 == [s1 EXCEPT !.chain[c].nodeUsage =
                                  IF out = "throw" THEN @
                                  ELSE AddUsage(@, Usage(call))]
         IN  IF text.threw THEN Commit(ChainRejects(s1, c))
             ELSE Commit(NodeReturns(s2, c, k, text.reasoning))

\* A synthesis call that raised is made a second time
SynthReturnsRetry ==
    /\ SynthCall \in inflight
    /\ \E out \in SynthOutcomes :
         LET s1 == LimitNext(Return(St, SynthCall, out), SynthCall)
         IN  IF out = "throw" /\ SynthCall \notin DOMAIN ret
             THEN Commit(Synthesize(s1))
             ELSE Commit(Catch(s1, Thrown(SynthCall)))

\* The synthesis call returns: the rest of synthesizeReport, the investigation
\* totals, and the call of saveReport
SynthReturns ==
    /\ SynthCall \in inflight
    /\ \E out \in SynthOutcomes :
         \E s1 \in {LimitNext(Return(St, SynthCall, out), SynthCall)} :
         \E s2 \in {Add(s1, LogEntry("final_report", "report", 0, 0, 0, 0))} :
           LET usage == AddUsage(s2.local.usage, Usage(SynthCall))
               s3 == [s2 EXCEPT !.local =
                          [usage |-> usage,
                           report |-> << SynthesizeReport(s2, out) >>,
                           investigation |-> << Investigation(s2) >>,
                           totalTokens |-> usage.inputTokens + usage.outputTokens]]
               s4 == Add(s3, LogEntry("analysis_progress", "saving", 0, 0, 0, 0))
           IN  IF out = "throw" THEN Commit(Catch(s1, Thrown(SynthCall)))
               ELSE Commit([s4 EXCEPT !.pc = "saving"])

\* The completed state without currentState.totalTokens
CompleteWithoutTokens(s, id) ==
    StreamDone([s EXCEPT !.status = "completed",
                         !.report = s.local.report,
                         !.investigation = s.local.investigation,
                         !.reportId = id,
                         !.pc = "done"])

\* The completed state: the last assignments of the try block, stream.done
Complete(s, id) ==
    With(s, LAMBDA v :
        StreamDone([v EXCEPT !.status = "completed",
                             !.report = v.local.report,
                             !.investigation = v.local.investigation,
                             !.totalTokens = << v.local.totalTokens >>,
                             !.reportId = id,
                             !.pc = "done"]))

\* saveReport is awaited without its own try block
SaveReturnsUncaught ==
    /\ pc = "saving"
    /\ \E out \in SaveOutcomes :
         LET s1 == [St EXCEPT !.ret = (SaveCall :> out) @@ @]
         IN  IF out = "fail" THEN Commit(Catch(s1, Thrown(SaveCall)))
             ELSE Commit(Complete(Add(s1, LogEntry("final_report", "saved",
                                                   0, 0, 0, 0)),
                                  << out >>))

\* saveReport returns: the saved or the warning log, then the completed state
SaveReturns ==
    /\ pc = "saving"
    /\ \E out \in SaveOutcomes :
         LET s1 == [St EXCEPT !.ret = (SaveCall :> out) @@ @]
         IN  IF out = "fail"
             THEN Commit(Complete(Add(s1, LogEntry("analysis_progress", "savefail",
                                                   0, 0, 0, 0)),
                                  <<>>))
             ELSE Commit(Complete(Add(s1, LogEntry("final_report", "saved",
                                                   0, 0, 0, 0)),
                                  << out >>))

Next ==
    \/ StartRun
    \/ PlanReturns
    \/ QuoteReturns
    \/ SearchReturns
    \/ ExtractReturns
    \/ ReasonReturns
    \/ SynthReturns
    \/ SaveReturns

Spec == Init /\ [][Next]_vars

\* The run when every capability call in flight comes to return or fail and
\* the continuations the event loop holds are run
PlanReturnsLive == PlanReturnsFrom(LiveTexts)

NextLive ==
    \/ StartRun
    \/ PlanReturnsLive
    \/ QuoteReturns
    \/ SearchReturns
    \/ ExtractReturns
    \/ ReasonReturns
    \/ SynthReturns
    \/ SaveReturns

Fairness ==
    /\ WF_vars(StartRun)
    /\ WF_vars(PlanReturnsLive)
    /\ WF_vars(QuoteReturns)
    /\ WF_vars(SearchReturns)
    /\ WF_vars(ExtractReturns)
    /\ WF_vars(ReasonReturns)
    /\ WF_vars(SynthReturns)
    /\ WF_vars(SaveReturns)

SpecLive == Init /\ [][NextLive]_vars /\ Fairness

\* The same run when the planning call may return the wide plan
PlanReturnsWide == PlanReturnsFrom(WideTexts)

\* searchWeb rejects or returns a result with content
SearchReturnsWide == SearchReturnsFrom(WideOutcomes)

NextWide ==
    \/ StartRun
    \/ PlanReturnsWide
    \/ QuoteReturns
    \/ SearchReturnsWide
    \/ ExtractReturns
    \/ ReasonReturns
    \/ SynthReturns
    \/ SaveReturns

SpecWide == Init /\ [][NextWide]_vars

\* The run of the contended plan, when every call in flight comes to return
PlanReturnsContended == PlanReturnsFrom(ContendedTexts)
SearchReturnsHit == SearchReturnsFrom(HitOutcomes)

NextContended ==
    \/ StartRun
    \/ PlanReturnsContended
    \/ QuoteReturns
    \/ SearchReturnsHit
    \/ ExtractReturns
    \/ ReasonReturns
    \/ SynthReturns
    \/ SaveReturns

FairnessContended ==
    /\ WF_vars(StartRun)
    /\ WF_vars(PlanReturnsContended)
    /\ WF_vars(QuoteReturns)
    /\ WF_vars(SearchReturnsHit)
    /\ WF_vars(ExtractReturns)
    /\ WF_vars(ReasonReturns)
    /\ WF_vars(SynthReturns)
    /\ WF_vars(SaveReturns)

SpecContended == Init /\ [][NextContended]_vars /\ FairnessContended

\* The same run when the planning call may return the plan with a node whose
\* questions are no array
PlanReturnsMalformed == PlanReturnsFrom(MalformedTexts)

NextMalformed ==
    \/ StartRun
    \/ PlanReturnsMalformed
    \/ QuoteReturns
    \/ SearchReturns
    \/ ExtractReturns
    \/ ReasonReturns
    \/ SynthReturns
    \/ SaveReturns

SpecMalformed == Init /\ [][NextMalformed]_vars

\* The same run when the planning call may return the plan that repeats a
\* question
PlanReturnsRepeat == PlanReturnsFrom(RepeatTexts)

NextRepeat ==
    \/ StartRun
    \/ PlanReturnsRepeat
    \/ QuoteReturns
    \/ SearchReturns
    \/ ExtractReturns
    \/ ReasonReturns
    \/ SynthReturns
    \/ SaveReturns

SpecRepeat == Init /\ [][NextRepeat]_vars

----------------------------------------------------------------------------
\* Two runs of runDeepResearchV3 in one process

\* One node asking the same question so often that two such nodes ask for
\* more slots than the call limiter has
SharedPlan == << << [q \in 1..(CallLimit - 2) |-> 1] >> >>
SharedTexts == {TopicsText(SharedPlan), TopicsText(Chains(ManyChains, 1, 1))}

\* the outcome of searchWeb in the two runs: it rejects
FailOutcomes == {"fail"}

\* Two calls of runDeepResearchV3 have been made
InitShared ==
    /\ Holds([InitialState EXCEPT !.peer = [run |-> 2, state |-> InitialState]])
    /\ page = NoPage
    /\ channel = NoChannel
    /\ request = NoRequest

PlanReturnsShared == PlanReturnsFrom(SharedTexts)
SearchReturnsFail == SearchReturnsFrom(FailOutcomes)

\* The event loop turns to the other run: the variables of the run now hold
\* the other run's state and peer holds this run's; the limiter stays as it
\* is, with each call marked from the other side
Switch ==
    /\ peer.run # 0
    /\ LET own == [St EXCEPT !.limQueue = <<>>, !.limActive = {}, !.peer = NoPeer]
       IN  Commit([peer.state EXCEPT
                      !.limQueue = [i \in DOMAIN limQueue |-> Retag(limQueue[i])],
                      !.limActive = {Retag(entry) : entry \in limActive},
                      !.peer = [run |-> 3 - peer.run, state |-> own]])

\* With every search failing no node makes a generation call
NextShared ==
    \/ StartRun
    \/ PlanReturnsShared
    \/ QuoteReturns
    \/ SearchReturnsFail
    \/ SynthReturns
    \/ SaveReturns
    \/ Switch

SpecShared == InitShared /\ [][NextShared]_vars

----------------------------------------------------------------------------
\* stream-helper.ts: a streamable value and its reader, at the level of bytes

\* The most calls of update and done after createStreamableValue
MaxWrites == 2

\* The texts a value holds: empty, a line feed, a character of two bytes, both
Messages == {<<>>, <<"\n">>, <<"U+00E9">>, <<"U+00E9", "\n">>}

\* A timestamp is a Date object, or a string that holds a date
Timestamps == {[kind |-> "Date", at |-> "t"], [kind |-> "string", at |-> "t"]}

\* The values written to the stream: a message and a timestamp
Values == [message : Messages, timestamp : Timestamps]

RECURSIVE Escape(_)
\* JSON.stringify of a string, without its quotes: a line feed becomes \n
Escape(text) ==
    IF text = <<>> THEN <<>>
    ELSE (IF Head(text) = "\n" THEN <<"\\", "n">> ELSE <<Head(text)>>)
            \o Escape(Tail(text))

\* JSON.stringify(value): Date.prototype.toJSON gives the date as a string
Stringify(value) ==
    <<"{">> \o Escape(value.message) \o <<",", value.timestamp.at, "}">>

\* What JSON.parse(JSON.stringify(value)) is: the timestamp is a string
ToJSON(value) == [value EXCEPT !.timestamp.kind = "string"]

RECURSIVE Escaped(_)
\* The text between the braces is a JSON string body: no raw line feed, no
\* replacement character, every backslash followed by n
Escaped(body) ==
    IF body = <<>> THEN TRUE
    ELSE IF Head(body) = "\\"
         THEN Len(body) >= 2 /\ body[2] = "n" /\ Escaped(Tail(Tail(body)))
         ELSE Head(body) \in {"U+00E9"} /\ Escaped(Tail(body))

RECURSIVE Unescape(_)
Unescape(body) ==
    IF body = <<>> THEN <<>>
    ELSE IF Head(body) = "\\" THEN <<"\n">> \o Unescape(Tail(Tail(body)))
         ELSE <<Head(body)>> \o Unescape(Tail(body))

\* JSON.parse(line): << value >>, or <<>> when it throws
Parse(line) ==
    LET n == Len(line)
    IN  IF /\ n >= 4 /\ line[1] = "{" /\ line[n] = "}"
           /\ line[n - 2] = "," /\ line[n - 1] = "t"
           /\ Escaped(SubSeq(line, 2, n - 3))
        THEN << [message |-> Unescape(SubSeq(line, 2, n - 3)),
                 timestamp |-> [kind |-> "string", at |-> line[n - 1]]] >>
        ELSE <<>>

RECURSIVE Encode(_)
\* encoder.encode(text): UTF-8, two bytes for U+00E9
Encode(text) ==
    IF text = <<>> THEN <<>>
    ELSE (IF Head(text) = "U+00E9" THEN <<"C3", "A9">> ELSE <<Head(text)>>)
            \o Encode(Tail(text))

RECURSIVE Decode(_, _)
\* decoder.decode(value, {stream: true}) with the bytes held from the chunk
\* before: an incomplete character at the end is held for the next chunk
Decode(held, bytes) ==
    IF bytes = <<>> THEN [text |-> <<>>, held |-> held]
    ELSE IF held = <<"C3">>
         THEN LET rest == Decode(<<>>, Tail(bytes))
              IN  IF Head(bytes) = "A9"
                  THEN [rest EXCEPT !.text = <<"U+00E9">> \o @]
                  ELSE LET again == Decode(<<>>, bytes)
                       IN  [again EXCEPT !.text = <<"U+FFFD">> \o @]
    ELSE IF Head(bytes) = "C3" THEN Decode(<<"C3">>, Tail(bytes))
    ELSE LET rest == Decode(<<>>, Tail(bytes))
         IN  [rest EXCEPT !.text = <<IF Head(bytes) = "A9" THEN "U+FFFD"
                                      ELSE Head(bytes)>> \o @]

RECURSIVE Split(_)
\* buffer.split("\n"): the lines, the last one being what follows the last
\* line feed
Split(text) ==
    IF \A i \in 1..Len(text) : text[i] # "\n" THEN << text >>
    ELSE LET i == CHOOSE i \in 1..Len(text) :
                      text[i] = "\n" /\ \A j \in 1..(i - 1) : text[j] # "\n"
         IN  << SubSeq(text, 1, i - 1) >> \o Split(SubSeq(text, i + 1, Len(text)))

RECURSIVE YieldLines(_)
\* for (const line of lines): the values yielded; a blank line is skipped
\* and a line that JSON.parse rejects is dropped with a warning
YieldLines(lines) ==
    IF lines = <<>> THEN <<>>
    ELSE (IF Head(lines) = <<>> THEN <<>> ELSE Parse(Head(lines)))
            \o YieldLines(Tail(lines))

\* writer.write(encoder.encode(JSON.stringify(value) + "\n"))
Write(ch, value) ==
    [ch EXCEPT !.written = Append(@, value),
               !.queue = @ \o Encode(Stringify(value) \o <<"\n">>)]

\* createStreamableValue(initialValue): the initial value is written at once
CreateStreamableValue(initialValue) ==
    Write([open |-> TRUE, written |-> <<>>, queue |-> <<>>, closed |-> FALSE,
           received |-> <<>>, held |-> <<>>, buffer |-> <<>>,
           yielded |-> <<>>, done |-> FALSE],
          initialValue)

\* Every line is parsed as soon as it is read, also the one without its
\* line feed, and nothing is kept
ReadNoBuffer(ch, n) ==
    LET bytes == SubSeq(ch.queue, 1, n)
        decoded == Decode(ch.held, bytes)
        lines == Split(ch.buffer \o decoded.text)
    IN  [ch EXCEPT !.queue = SubSeq(@, n + 1, Len(@)),
                   !.received = @ \o bytes,
                   !.held = decoded.held,
                   !.buffer = <<>>,
                   !.yielded = @ \o YieldLines(lines)]

\* One turn of the loop of readStreamableValue, reader.read having returned
\* the first n bytes of the queue as a chunk
Read(ch, n) ==
    LET bytes == SubSeq(ch.queue, 1, n)
        decoded == Decode(ch.held, bytes)
        lines == Split(ch.buffer \o decoded.text)
    IN  [ch EXCEPT !.queue = SubSeq(@, n + 1, Len(@)),
                   !.received = @ \o bytes,
                   !.held = decoded.held,
                   !.buffer = lines[Len(lines)],
                   !.yielded = @ \o YieldLines(SubSeq(lines, 1, Len(lines) - 1))]

\* reader.read returns done: the remaining buffer is parsed if it is not blank
ReadDone(ch) ==
    [ch EXCEPT !.done = TRUE,
               !.yielded = @ \o (IF ch.buffer = <<>> THEN <<>> ELSE Parse(ch.buffer))]

\* A streamable value has been created with some initial value
InitStream ==
    /\ InitRun
    /\ page = NoPage
    /\ channel \in {CreateStreamableValue(value) : value \in Values}
    /\ request = NoRequest

\* update(value)
Update ==
    /\ ~channel.closed /\ Len(channel.written) < MaxWrites
    /\ \E value \in Values : channel' = Write(channel, value)
    /\ UNCHANGED <<pageVars, request>>

\* done(value): the last write, then writer.close()
Done ==
    /\ ~channel.closed /\ Len(channel.written) <= MaxWrites
    /\ \E value \in Values : channel' = [Write(channel, value) EXCEPT !.closed = TRUE]
    /\ UNCHANGED <<pageVars, request>>

\* The reader receives the next chunk: any non-empty run of the bytes written
ReadChunk ==
    /\ ~channel.done /\ channel.queue # <<>>
    /\ \E n \in 1..Len(channel.queue) : channel' = Read(channel, n)
    /\ UNCHANGED <<pageVars, request>>

\* The reader reaches the end of the closed stream
ReadEnd ==
    /\ ~channel.done /\ channel.closed /\ channel.queue = <<>>
    /\ channel' = ReadDone(channel)
    /\ UNCHANGED <<pageVars, request>>

NextStream ==
    \/ Update
    \/ Done
    \/ ReadChunk
    \/ ReadEnd

SpecStream == InitStream /\ [][NextStream]_vars

----------------------------------------------------------------------------
\* generator.ts: generateWithOpenAICompatible, the retry loop

\* retries: number = 3
Retries == 3
\* The backoff starts at 1000 ms, doubles, and is capped at 10000 ms
BackoffStart == 1000
BackoffCap == 10000

\* What an attempt may throw. A message is its words; an Error may have a
\* code and a cause with a code; a thrown value that is not an Error is a
\* string.
TimeoutError ==
    [isError |-> TRUE, message |-> <<"Request", "timeout", "after", "180", "seconds">>,
     code |-> "", causeCode |-> ""]
ResetError ==
    [isError |-> TRUE, message |-> <<"read", "ECONNRESET">>, code |-> "",
     causeCode |-> ""]
ClosedError ==
    [isError |-> TRUE, message |-> <<"other", "side", "closed">>, code |-> "",
     causeCode |-> ""]
SocketCauseError ==
    [isError |-> TRUE, message |-> <<"fetch", "failed">>, code |-> "",
     causeCode |-> "UND_ERR_SOCKET"]
FetchError ==
    [isError |-> TRUE, message |-> <<"fetch", "failed">>, code |-> "",
     causeCode |-> ""]
UnauthorizedError ==
    [isError |-> TRUE, message |-> <<"401", "Unauthorized">>, code |-> "",
     causeCode |-> ""]
ThrownSocketString ==
    [isError |-> FALSE, message |-> <<"UND_ERR_SOCKET">>, code |-> "",
     causeCode |-> ""]
ThrownString ==
    [isError |-> FALSE, message |-> <<"quota">>, code |-> "", causeCode |-> ""]
Errors == {TimeoutError, ResetError, ClosedError, SocketCauseError, FetchError,
           UnauthorizedError, ThrownSocketString, ThrownString}

\* throw new Error("Empty response from API")
EmptyResponse ==
    [isError |-> TRUE, message |-> <<"Empty", "response", "from", "API">>,
     code |-> "", causeCode |-> ""]

\* completion.choices[0]?.message?.content || "": a text, or nothing
Completions == {[message |-> "text"], [message |-> ""]}

\* toLowerCase, word by word
Lower(word) ==
    CASE word = "Request" -> "request"
      [] word = "ECONNRESET" -> "econnreset"
      [] word = "UND_ERR_SOCKET" -> "und_err_socket"
      [] word = "Unauthorized" -> "unauthorized"
      [] word = "Empty" -> "empty"
      [] word = "API" -> "api"
      [] OTHER -> word
ToLowerCase(text) == [i \in 1..Len(text) |-> Lower(text[i])]

\* text.includes(phrase), on words
Includes(text, phrase) ==
    \E i \in 1..(Len(text) - Len(phrase) + 1) :
        SubSeq(text, i, i + Len(phrase) - 1) = phrase

\* error instanceof Error ? error : new Error(String(error))
LastError(thrown) == [thrown EXCEPT !.isError = TRUE]

\* Every error is retried
AlwaysRetryable(thrown) == TRUE

\* isRetryable: the message, the string form, the code or the cause's code
\* names a connection failure
IsRetryable(thrown) ==
    LET errorMessage == ToLowerCase(LastError(thrown).message)
        errorString == ToLowerCase(thrown.message)
    IN  \/ Includes(errorMessage, <<"terminated">>)
        \/ Includes(errorMessage, <<"socket">>)
        \/ Includes(errorMessage, <<"timeout">>)
        \/ Includes(errorMessage, <<"econnreset">>)
        \/ Includes(errorMessage, <<"other", "side", "closed">>)
        \/ Includes(errorMessage, <<"econnrefused">>)
        \/ Includes(errorMessage, <<"enotfound">>)
        \/ Includes(errorString, <<"und_err_socket">>)
        \/ thrown.code = "UND_ERR_SOCKET"
        \/ thrown.causeCode = "UND_ERR_SOCKET"

\* The wait does not grow with the attempts
WaitTimeFixed(attempt) == BackoffStart

\* Math.min(1000 * Math.pow(2, attempt - 1), 10000)
WaitTime(attempt) ==
    LET time == BackoffStart * 2 ^ (attempt - 1)
    IN  IF time < BackoffCap THEN time ELSE BackoffCap

\* The catch block of an attempt: raise, or wait and attempt again
Caught(r, thrown) ==
    LET r1 == [r EXCEPT !.errors = Append(@, thrown)]
    IN  IF ~IsRetryable(thrown) \/ r.attempt = Retries
        THEN [r1 EXCEPT !.phase = "raised",
                        !.raised = << LastError(thrown).message >>]
        ELSE [r1 EXCEPT !.phase = "waiting",
                        !.waits = Append(@, WaitTime(r.attempt))]

\* generateWithOpenAICompatible has been called and makes its first attempt
InitRequest ==
    /\ InitRun
    /\ page = NoPage
    /\ channel = NoChannel
    /\ request = [phase |-> "attempting", attempt |-> 1, errors |-> <<>>,
                  waits |-> <<>>, result |-> <<>>, raised |-> <<>>]

\* client.chat.completions.create resolves: the text is returned, or an
\* empty text is thrown as an error into the catch block
AttemptReturns ==
    /\ request.phase = "attempting"
    /\ \E completion \in Completions :
         request' = IF completion.message = ""
                    THEN Caught(request, EmptyResponse)
                    ELSE [request EXCEPT !.phase = "returned",
                                         !.result = << completion.message >>]
    /\ UNCHANGED <<pageVars, channel>>

\* The request rejects, or the timeout of 180 seconds wins the race
AttemptThrows ==
    /\ request.phase = "attempting"
    /\ \E thrown \in Errors : request' = Caught(request, thrown)
    /\ UNCHANGED <<pageVars, channel>>

\* The backoff wait is over: the next turn of the for loop
BackoffElapses ==
    /\ request.phase = "waiting"
    /\ request' = [request EXCEPT !.phase = "attempting", !.attempt = @ + 1]
    /\ UNCHANGED <<pageVars, channel>>

NextRequest ==
    \/ AttemptReturns
    \/ AttemptThrows
    \/ BackoffElapses

SpecRequest == InitRequest /\ [][NextRequest]_vars

----------------------------------------------------------------------------
\* The report page: what startNewResearch derives from a snapshot

RECURSIVE PlanSteps(_, _)
\* state.plan.reduce((sum, c) => sum + c.chain.length, 0), over chains 1..c
PlanSteps(chains, c) ==
    IF c = 0 THEN 0 ELSE PlanSteps(chains, c - 1) + Len(chains[c])

RECURSIVE CompletedSteps(_, _)
\* state.completedChains.reduce((sum, c) => sum + (nodes with findings), 0),
\* over the first n completed chains; a completed chain is the updated chain
\* that its task pushed
CompletedSteps(completed, n) ==
    IF n = 0 THEN 0
    ELSE CompletedSteps(completed, n - 1) + CompletedIn(chain[completed[n]].updated)

\* The totalNodes and completedNodes of currentInvestigation
Derived(snapshot) ==
    [totalNodes |-> PlanSteps(plan, Len(plan)),
     completedNodes |-> CompletedSteps(snapshot.completedChains,
                                       Len(snapshot.completedChains))]

\* A chain of the plan as the snapshot carries it in state.plan
PlannedChain(c) ==
    [topic |-> topics[c],
     chain |-> [k \in 1..Len(plan[c]) |-> PlannedNode(St, c, k)]]

\* A chain as its task pushed it to state.completedChains
CompletedChain(c) == [topic |-> chain[c].topic, chain |-> chain[c].updated]

RECURSIVE Find(_, _, _)
\* state.completedChains.find(c => c.topic === topic), from position i on:
\* the first completed chain with that topic, or 0 for undefined
Find(completed, topic, i) ==
    IF i > Len(completed) THEN 0
    ELSE IF CompletedChain(completed[i]).topic = topic THEN completed[i]
    ELSE Find(completed, topic, i + 1)

\* mergedChains: for each planned chain, the completed chain found under its
\* topic, or else the planned chain
MergedChains(snapshot) ==
    [c \in 1..Len(plan) |->
        LET completed == Find(snapshot.completedChains, PlannedChain(c).topic, 1)
        IN  IF completed # 0 THEN CompletedChain(completed) ELSE PlannedChain(c)]

\* currentInvestigation
CurrentInvestigation(snapshot) ==
    [topicChains |-> MergedChains(snapshot),
     totalNodes |-> Derived(snapshot).totalNodes,
     completedNodes |-> Derived(snapshot).completedNodes]

\* Math.min
Min(a, b) == IF a < b THEN a ELSE b

\* (completedNodes / totalNodes) * 100, or 0 without nodes; the whole
\* percents of the value
ProgressValue(inv) ==
    IF inv.totalNodes > 0 THEN (100 * inv.completedNodes) \div inv.totalNodes
    ELSE 0

\* The progress shown for the type of the last log
LogProgress(type) ==
    CASE type = "strategist_plan" -> 10
      [] type = "mission_start" -> 20
      [] type = "search_query" -> 40
      [] type = "search_results" -> 60
      [] type = "analysis_progress" -> 80
      [] type = "final_report" -> 100
      [] OTHER -> 0

\* useEffect(..., [logs, investigation]): the progress is set from the
\* investigation, or without one from the last log
Effect(p) ==
    IF p.investigation # <<>>
    THEN [p EXCEPT !.progress = Min(ProgressValue(p.investigation[1]), 100),
                   !.showReport = @ \/ ProgressValue(p.investigation[1]) >= 80]
    ELSE IF p.logs # <<>>
    THEN [p EXCEPT !.progress = LogProgress(p.logs[Len(p.logs)].type),
                   !.showReport = @ \/ p.logs[Len(p.logs)].type = "analysis_progress"]
    ELSE p

\* The body of the for await loop for one state of the stream, and the
\* effect that follows the state updates
ReadState(p, state) ==
    LET p1 == [p EXCEPT !.read = @ + 1, !.logs = state.logs]
        p2 == IF state.planned
              THEN [p1 EXCEPT !.current = << CurrentInvestigation(state) >>,
                              !.investigation = << CurrentInvestigation(state) >>]
              ELSE p1
        p3 == IF state.status = "completed" /\ state.report # <<>>
                    /\ state.investigation # <<>>
              THEN [p2 EXCEPT !.progress = 100,
                              !.report = state.report,
                              !.investigation = state.investigation,
                              !.tokenCount = IF state.totalTokens = <<>> THEN 0
                                             ELSE state.totalTokens[1],
                              !.showReport = TRUE]
              ELSE p2
    IN  IF state.status = "error"
        THEN Effect([p1 EXCEPT !.error = IF state.error = <<>>
                                         THEN << "Unknown error" >>
                                         ELSE state.error,
                               !.stopped = TRUE])
        ELSE Effect(p3)

\* The log startNewResearch sets before it requests the stream
ClientLog == LogEntry("strategist_plan", "client", 0, 0, 0, 0)

\* The page after startNewResearch has set its first log
InitialPage ==
    Effect([read |-> 0, logs |-> << ClientLog >>, investigation |-> <<>>,
            current |-> <<>>, progress |-> 0, showReport |-> FALSE,
            report |-> <<>>, tokenCount |-> 0, error |-> <<>>,
            stopped |-> FALSE])

\* The topic the planner gives to both chains of a plan
SameTopic == << "Growth" >>

\* A plan of two chains of one node, to which the planner gave the same topic
PageTexts == {NamedText(Chains(2, 1, 1), << SameTopic, SameTopic >>)}

\* A run and the report page that reads its stream
InitPage ==
    /\ InitRun
    /\ page = InitialPage
    /\ channel = NoChannel
    /\ request = NoRequest

PlanReturnsPage == PlanReturnsFrom(PageTexts)

\* The for await loop takes the next state from the stream
PageReads ==
    /\ ~page.stopped
    /\ page.read < Len(snapshots)
    /\ page' = ReadState(page, snapshots[page.read + 1])
    /\ UNCHANGED <<runVars, channel, request>>

NextPage ==
    \/ StartRun
    \/ PlanReturnsPage
    \/ QuoteReturns
    \/ SearchReturnsHit
    \/ ExtractReturns
    \/ ReasonReturns
    \/ SynthReturns
    \/ SaveReturns
    \/ PageReads

SpecPage == InitPage /\ [][NextPage]_vars

----------------------------------------------------------------------------
\* Properties

Range(f) == {f[i] : i \in DOMAIN f}

\* Every call the run has made so far: queued, in flight or returned
CallsMade == Range(limQueue) \cup inflight \cup DOMAIN ret

\* The nodes of the plan, as <<chain, node>>
PlanNodes == UNION {{<<c, k>> : k \in 1..Len(plan[c])} : c \in 1..Len(plan)}

Terminal(st) == st \in {"completed", "error"}
StatusOrder ==
    [initializing |-> 0, planning |-> 1, researching |-> 2, completed |-> 3,
     error |-> 3]
\* A status may stay, move forward, or jump to error; a terminal status stays
Forward(a, b) ==
    \/ a = b
    \/ ~Terminal(a) /\ (b = "error" \/ StatusOrder[a] < StatusOrder[b])

\* C1: the statuses of the published snapshots, in stream order, only move
\* forward along initializing, planning, researching, completed, or jump to
\* error, and nothing follows completed or error but the same status.
C1_StatusForward ==
    \A i \in 1..(Len(snapshots) - 1) :
        Forward(snapshots[i].status, snapshots[i + 1].status)

\* A completed run whose stream shows all four statuses in order
C1_Witness ==
    /\ pc = "done"
    /\ snapshots[Len(snapshots)].status = "completed"
    /\ \E i, j, k \in 1..Len(snapshots) :
         /\ i < j /\ j < k
         /\ snapshots[i].status = "initializing"
         /\ snapshots[j].status = "planning"
         /\ snapshots[k].status = "researching"

\* C2: at most CallLimit generation and search calls are in flight, and
\* every call in flight holds a slot of the limiter.
C2_CallLimiter ==
    /\ Cardinality(inflight) <= CallLimit
    /\ inflight \subseteq limActive

\* The limiter is full and a search of the same node waits for a slot
C2_Witness ==
    /\ Cardinality(inflight) = CallLimit
    /\ limQueue # <<>>
    /\ Head(limQueue)[1] = "search"

ChainStarted(c) == \E i \in 1..Len(logs) : logs[i].msg = "chain" /\ logs[i].chain = c
\* From the chain's mission_start log until it is in completedChains
Executing(c) == ChainStarted(c) /\ c \notin Range(completedChains)
ExecutingChains == {c \in 1..Len(plan) : Executing(c)}

\* C3: at most ChainLimit chains execute at a time, a chain beyond the first
\* ChainLimit starts only after earlier chains have finished, and the chains
\* start in plan order.
C3_ChainLimiter ==
    /\ Cardinality(ExecutingChains) <= ChainLimit
    /\ \A c \in 1..Len(plan) :
         ChainStarted(c) =>
            /\ \A d \in 1..(c - 1) : ChainStarted(d)
            /\ Len(completedChains) >= c - ChainLimit
    /\ \A j \in 1..Len(logs) :
         logs[j].msg = "chain" =>
            \A i \in 1..(j - 1) :
               logs[i].msg = "chain" => logs[i].chain < logs[j].chain

\* A chain beyond the first ChainLimit executes beside another chain
C3_Witness ==
    /\ Cardinality(ExecutingChains) = ChainLimit
    /\ \E c \in ExecutingChains : c > ChainLimit /\ chain[c].phase = "search"

\* The completion log of node k of chain c is at a position before i
CompletedBefore(c, k, i) ==
    \E j \in 1..(i - 1) :
        logs[j].msg = "completed" /\ logs[j].chain = c /\ logs[j].node = k

\* C4: node k+1 of a chain has no mission_start log and no search or
\* generation call before node k is recorded in the updated chain and its
\* completion log is emitted.
C4_NodesInOrder ==
    /\ \A i \in 1..Len(logs) :
         (logs[i].msg = "node" /\ logs[i].node > 1)
            => CompletedBefore(logs[i].chain, logs[i].node - 1, i)
    /\ \A call \in CallsMade :
         call[3] > 1 =>
            /\ Len(chain[call[2]].updated) >= call[3] - 1
            /\ CompletedBefore(call[2], call[3] - 1, Len(logs) + 1)

\* The second node of a chain searches after the first extracted and reasoned
C4_Witness ==
    \E c \in 1..Len(plan) :
        /\ SearchCall(c, 2, 1) \in inflight
        /\ ReasonCall(c, 1) \in DOMAIN ret

\* C5: the fact-extraction call of a node is made only when every search of
\* the node has returned, and the results it extracts from are those of
\* exactly the questions whose search returned content.
C5_ExtractAfterAllSearches ==
    \A call \in CallsMade :
        call[1] = "extract" =>
            LET c == call[2]
                k == call[3]
                qs == 1..Len(plan[c][k])
                used == IF Len(chain[c].results) >= k
                        THEN chain[c].results[k].searchResults
                        ELSE chain[c].agg
            IN  /\ \A q \in qs : SearchCall(c, k, q) \in DOMAIN ret
                /\ Range(used) = {q \in qs : ret[SearchCall(c, k, q)] = "hit"}

\* Extraction is in flight for a node whose first search returned after a
\* later one and without content
C5_Witness ==
    \E call \in inflight :
        /\ call[1] = "extract"
        /\ Len(plan[call[2]][call[3]]) >= 2
        /\ ret[SearchCall(call[2], call[3], 1)] # "hit"
        /\ \E i, j \in 1..Len(logs) :
             /\ i < j
             /\ logs[i].type = "search_results" /\ logs[i].question = 2
             /\ logs[j].type = "search_results" /\ logs[j].question = 1
             /\ logs[i].chain = call[2] /\ logs[j].chain = call[2]
             /\ logs[i].node = call[3] /\ logs[j].node = call[3]

\* Every call that executeNode makes for node k of chain c has returned
NodeCallsSettled(c, k) ==
    /\ \E i \in 1..Len(logs) :
         logs[i].msg = "node" /\ logs[i].chain = c /\ logs[i].node = k
    /\ \A q \in 1..Len(plan[c][k]) : SearchCall(c, k, q) \in DOMAIN ret
    /\ (\E q \in 1..Len(plan[c][k]) : ret[SearchCall(c, k, q)] = "hit")
          => ExtractCall(c, k) \in DOMAIN ret
    /\ (ExtractCall(c, k) \in DOMAIN ret /\ ret[ExtractCall(c, k)] = "facts1")
          => ReasonCall(c, k) \in DOMAIN ret

YieldedFacts(c, k) ==
    ExtractCall(c, k) \in DOMAIN ret /\ ret[ExtractCall(c, k)] = "facts1"

AllSearchesFailed(c, k) ==
    \A q \in 1..Len(plan[c][k]) :
        SearchCall(c, k, q) \in DOMAIN ret /\ ret[SearchCall(c, k, q)] = "fail"

StageFailed ==
    \/ PlanCall \in DOMAIN ret /\ ret[PlanCall].kind = "throw"
    \/ QuoteCall \in DOMAIN ret /\ ret[QuoteCall] = "fail"
    \/ SynthCall \in DOMAIN ret /\ ret[SynthCall] = "throw"

\* C7: a finished run in which planning, the quote fetch and synthesis did
\* not fail ends completed, whatever the searches, extractions and reasoning
\* calls did; a node whose searches all failed has no findings and is not
\* among the completed nodes.
C7_DegradedRunCompletes ==
    (pc = "done" /\ ~StageFailed) =>
        /\ status = "completed"
        /\ snapshots[Len(snapshots)].status = "completed"
        /\ \A n \in PlanNodes :
             AllSearchesFailed(n[1], n[2])
                => chain[n[1]].updated[n[2]].findings = 0
        /\ investigation[1].completedNodes
              <= Cardinality(PlanNodes)
                   - Cardinality({n \in PlanNodes : AllSearchesFailed(n[1], n[2])})

\* A completed run with a node whose search failed, a node whose extraction
\* call rejected and a node whose reasoning call rejected
C7_Witness ==
    /\ pc = "done"
    /\ status = "completed"
    /\ \E n \in PlanNodes : Len(plan[n[1]][n[2]]) > 0 /\ AllSearchesFailed(n[1], n[2])
    /\ \E call \in DOMAIN ret : call[1] = "extract" /\ ret[call] = "throw"
    /\ \E call \in DOMAIN ret : call[1] = "reason" /\ ret[call] = "throw"

NodesWithFindings ==
    {n \in PlanNodes : /\ Len(chain[n[1]].updated) >= n[2]
                       /\ chain[n[1]].updated[n[2]].findings > 0}

\* C8: a node's result has success exactly when it has findings; the
\* completed state counts in completedNodes the nodes with findings and in
\* totalNodes all nodes, so 0 <= completedNodes <= totalNodes.
C8_NodeCompletionRule ==
    /\ \A c \in 1..Len(plan) : \A k \in 1..Len(chain[c].results) :
         chain[c].results[k].success <=> chain[c].results[k].findings > 0
    /\ status = "completed" =>
         /\ investigation[1].completedNodes = Cardinality(NodesWithFindings)
         /\ investigation[1].totalNodes = Cardinality(PlanNodes)
         /\ 0 <= investigation[1].completedNodes
         /\ investigation[1].completedNodes <= investigation[1].totalNodes

\* A completed run with a node that has search results but no findings,
\* and with some but not all nodes completed
C8_Witness ==
    /\ status = "completed"
    /\ 0 < investigation[1].completedNodes
    /\ investigation[1].completedNodes < investigation[1].totalNodes
    /\ \E c \in 1..Len(plan) : \E k \in 1..Len(chain[c].results) :
         /\ chain[c].results[k].searchResults # <<>>
         /\ chain[c].results[k].findings = 0

PlanText == ret[PlanCall]

\* C9: when the planning response is text in which no JSON object can be
\* found or parsed, generateTopicChains returns a non-empty plan, the
\* fallback chain, and does not throw.
C9_PlanningFallback ==
    (PlanCall \in DOMAIN ret /\ PlanText.kind \in {"nojson", "badjson"})
        => planned /\ plan = FallbackChains

\* C10: when the planning response holds a JSON object that parses but has
\* no topics array, generateTopicChains returns the fallback chain, so the
\* plan is not empty.
C10_MissingFieldsFallback ==
    (PlanCall \in DOMAIN ret /\ PlanText.kind = "notopics")
        => planned /\ plan # <<>>

SynthText == ret[SynthCall]
FactsFound == Cardinality({n \in PlanNodes : YieldedFacts(n[1], n[2])})

\* C11: when the synthesis response has no JSON object, malformed JSON, or
\* JSON that fails the report schema, synthesizeReport does not throw and
\* returns the fallback report built from the ticker, the number of facts
\* found and the number of chains; the run then ends completed with it.
C11_ReportFallback ==
    (SynthCall \in DOMAIN ret /\ SynthText \in {"nojson", "badjson", "badshape"})
        => /\ pc \in {"saving", "done"}
           /\ local.report = << FallbackReport(Ticker, FactsFound, Len(plan)) >>
           /\ status # "error" /\ error = <<>>
           /\ pc = "done" =>
                 /\ status = "completed"
                 /\ report = local.report
                 /\ snapshots[Len(snapshots)].status = "completed"
                 /\ snapshots[Len(snapshots)].report = local.report

\* A completed run of two chains with a fact found whose synthesis response
\* failed the schema
C11_Witness ==
    /\ pc = "done"
    /\ SynthCall \in DOMAIN ret /\ SynthText = "badshape"
    /\ Len(plan) >= 2
    /\ report # <<>> /\ report[1].kind = "fallback" /\ report[1].facts >= 1

QuoteFailed == QuoteCall \in DOMAIN ret /\ ret[QuoteCall] = "fail"

\* C12: when the quote fetch fails the run ends with a last snapshot of
\* status error that has the error message; no chain starts, no search or
\* node generation call is made, completedChains stays empty, and synthesis
\* is not called.
C12_QuoteFailureEndsRun ==
    QuoteFailed =>
        /\ pc = "done" /\ closed
        /\ status = "error" /\ error = << ErrorMessage(Thrown(QuoteCall)) >>
        /\ snapshots[Len(snapshots)].status = "error"
        /\ snapshots[Len(snapshots)].error = error
        /\ \A i \in 1..Len(logs) : logs[i].msg \notin {"chain", "node", "synth"}
        /\ CallsMade \subseteq {PlanCall, QuoteCall}
        /\ completedChains = <<>>
        /\ \A i \in 1..Len(snapshots) : snapshots[i].completedChains = <<>>
        /\ \A c \in 1..Len(plan) : chain[c] = InitialChain

\* The quote fetch failed after a plan of several chains was published
C12_Witness ==
    /\ QuoteFailed
    /\ Len(plan) > ChainLimit
    /\ \E i \in 1..Len(snapshots) : snapshots[i].planned

SaveFailed == SaveCall \in DOMAIN ret /\ ret[SaveCall] = "fail"
LastSnapshot == snapshots[Len(snapshots)]
LastLog == logs[Len(logs)]

\* C13: when saveReport fails a warning log is appended and the run ends
\* completed with report, investigation and totalTokens but without a
\* reportId, never with status error; when it succeeds, reportId is the id
\* of the saved row.
C13_SaveFailureCompletes ==
    SaveCall \in DOMAIN ret =>
        /\ pc = "done" /\ closed
        /\ status = "completed" /\ error = <<>>
        /\ \A i \in 1..Len(snapshots) : snapshots[i].status # "error"
        /\ LastSnapshot.status = "completed"
        /\ LastSnapshot.report = local.report /\ local.report # <<>>
        /\ LastSnapshot.investigation = local.investigation
        /\ local.investigation # <<>>
        /\ LastSnapshot.totalTokens = << local.totalTokens >>
        /\ IF SaveFailed
           THEN /\ LastSnapshot.reportId = <<>>
                /\ LastLog.type = "analysis_progress" /\ LastLog.msg = "savefail"
                /\ LastSnapshot.logs = logs
           ELSE /\ LastSnapshot.reportId = << ret[SaveCall] >>
                /\ LastLog.type = "final_report" /\ LastLog.msg = "saved"

\* A run that found facts and parsed its report completed although the
\* save failed
C13_Witness ==
    /\ SaveFailed
    /\ status = "completed"
    /\ report # <<>> /\ report[1].kind = "parsed"
    /\ investigation # <<>> /\ investigation[1].completedNodes > 0

\* The generation calls that returned a response, and so a usage
Responded ==
    {call \in DOMAIN ret :
        \/ call[1] = "plan" /\ ret[call].kind # "throw"
        \/ call[1] \in {"extract", "reason", "synth"} /\ ret[call] # "throw"}

RECURSIVE TokensOf(_)
\* The sum of inputTokens + outputTokens over a set of calls
TokensOf(calls) ==
    IF calls = {} THEN 0
    ELSE LET call == CHOOSE x \in calls : TRUE
         IN  Usage(call).inputTokens + Usage(call).outputTokens
                + TokensOf(calls \ {call})

\* C14: in a completed run, totalTokens is the sum of inputTokens and
\* outputTokens over every generation call that returned a response
\* (planning, each extraction and reasoning call, synthesis), each counted
\* once, in whatever order the chains ran.
C14_TokenAccounting ==
    status = "completed" =>
        /\ totalTokens = << TokensOf(Responded) >>
        /\ LastSnapshot.totalTokens = totalTokens

\* A completed run in which the second chain finished before the first, an
\* extraction response could not be parsed and a reasoning call rejected
C14_Witness ==
    /\ status = "completed"
    /\ Len(completedChains) >= 2 /\ completedChains[1] > completedChains[2]
    /\ \E call \in DOMAIN ret : call[1] = "extract" /\ ret[call] = "badjson"
    /\ \E call \in DOMAIN ret : call[1] = "reason" /\ ret[call] = "throw"
    /\ \E call \in DOMAIN ret : call[1] = "reason" /\ ret[call] = "text"

IsPrefix(a, b) == Len(a) <= Len(b) /\ a = SubSeq(b, 1, Len(a))

\* The position in logs of the first log with this message for chain c,
\* node k and question q (0 if there is none)
LogAt(msg, c, k, q) ==
    LET at == {i \in 1..Len(logs) : /\ logs[i].msg = msg /\ logs[i].chain = c
                                    /\ logs[i].node = k
                                    /\ logs[i].question = q}
    IN  IF at = {} THEN 0 ELSE CHOOSE i \in at : \A j \in at : i <= j

\* C15: the logs of each snapshot are a prefix of the logs of the next
\* snapshot (hence of every later one, the prefix order being transitive) and
\* of the current logs, and the logs stand in the order they were emitted: a
\* chain's start before its nodes' starts, a node's start before its
\* completion, also when chains run side by side.
C15_LogsAppendOnly ==
    /\ \A i \in 1..(Len(snapshots) - 1) :
         IsPrefix(snapshots[i].logs, snapshots[i + 1].logs)
    /\ IsPrefix(LastSnapshot.logs, logs)
    /\ \A n \in PlanNodes :
         LET started == LogAt("node", n[1], n[2], 0)
             completed == LogAt("completed", n[1], n[2], 0)
             begun == LogAt("chain", n[1], 0, 0)
         IN  /\ started > 0 => 0 < begun /\ begun < started
             /\ completed > 0 => 0 < started /\ started < completed

\* Two chains executing side by side have their logs interleaved in the
\* published stream
C15_Witness ==
    /\ Len(snapshots) > 2
    /\ \E i, j, k \in 1..Len(LastSnapshot.logs) :
         /\ i < j /\ j < k
         /\ logs[i].chain = 1 /\ logs[j].chain = 2 /\ logs[k].chain = 1
         /\ logs[i].node = 1 /\ logs[j].node = 1 /\ logs[k].node = 1

\* The statuses the run has taken so far, from where its async body stands
StatusesTaken ==
    {"initializing"}
       \cup (IF pc # "created" THEN {"planning"} ELSE {})
       \cup (IF planned THEN {"researching"} ELSE {})
       \cup (IF pc = "done" THEN {status} ELSE {})

\* C16: every status the run has taken has a snapshot carrying it, written
\* before the status changed again; the last snapshot written carries the
\* current status with all logs and completedChains accumulated so far, and
\* once the run has ended it carries the terminal status and the stream is
\* closed.
C16_StatusRepublished ==
    /\ {snapshots[i].status : i \in 1..Len(snapshots)} = StatusesTaken
    /\ LastSnapshot.status = status
    /\ LastSnapshot.logs = logs
    /\ LastSnapshot.completedChains = completedChains
    /\ LastSnapshot.planned = planned
    /\ pc = "done" <=> closed
    /\ pc = "done" <=> Terminal(status)

\* A run that failed at synthesis has published every status it took,
\* and its last snapshot holds the chains it completed
C16_Witness ==
    /\ pc = "done" /\ status = "error"
    /\ StatusesTaken = {"initializing", "planning", "researching", "error"}
    /\ Len(LastSnapshot.completedChains) >= 2

\* The first snapshot whose completedChains holds chain c (0 if none)
FirstWith(c) ==
    LET at == {i \in 1..Len(snapshots) : c \in Range(snapshots[i].completedChains)}
    IN  IF at = {} THEN 0 ELSE CHOOSE i \in at : \A j \in at : i <= j

\* The last log that executeTopicChain emits for chain c: the completion
\* of its last node, or its own start when it has no node
LastLogOf(c) ==
    IF plan[c] = <<>> THEN LogEntry("mission_start", "chain", c, 0, 0, 0)
    ELSE LogEntry("analysis_progress", "completed", c, Len(plan[c]), 0,
                  chain[c].updated[Len(plan[c])].findings)

\* C17: a chain that finishes is appended to completedChains and a
\* snapshot holding it as the newest chain, with the chain's last log, is
\* published before another chain is appended; completedChains grows only
\* by appending one chain at a time, never holds
\* a chain twice, and holds every planned chain once all chains have
\* finished, in whatever order they finished.
C17_ChainsMerge ==
    /\ \A i \in 1..(Len(snapshots) - 1) :
         /\ IsPrefix(snapshots[i].completedChains, snapshots[i + 1].completedChains)
         /\ Len(snapshots[i + 1].completedChains)
               <= Len(snapshots[i].completedChains) + 1
    /\ \A i, j \in 1..Len(completedChains) :
         completedChains[i] = completedChains[j] => i = j
    /\ \A c \in 1..Len(plan) :
         /\ chain[c].phase = "done" <=> c \in Range(completedChains)
         /\ chain[c].phase = "done" =>
               LET at == FirstWith(c)
               IN  /\ at > 0
                   /\ LET first == snapshots[at]
                      IN  /\ LastLogOf(c) \in Range(first.logs)
                          /\ first.completedChains[Len(first.completedChains)] = c
    /\ SynthCall \in CallsMade =>
         /\ Len(completedChains) = Len(plan)
         /\ Range(completedChains) = 1..Len(plan)

\* Every chain of a plan of more chains than chainLimit has finished, and
\* not in plan order
C17_Witness ==
    /\ SynthCall \in CallsMade
    /\ Len(plan) > ChainLimit
    /\ \E i, j \in 1..Len(completedChains) :
         i < j /\ completedChains[i] > completedChains[j]

\* The first snapshot that carries the plan (0 if none)
FirstPlanned ==
    LET at == {i \in 1..Len(snapshots) : snapshots[i].planned}
    IN  IF at = {} THEN 0 ELSE CHOOSE i \in at : \A j \in at : i <= j

\* C18: every snapshot of status researching or completed carries the plan,
\* and the first snapshot that carries it was published before the first
\* chain's mission_start log and before any search call: it holds no log of
\* a chain, and no search, extraction or reasoning call exists without it.
C18_PlanBeforeChains ==
    /\ \A i \in 1..Len(snapshots) :
         snapshots[i].status \in {"researching", "completed"} => snapshots[i].planned
    /\ LET at == FirstPlanned
       IN  /\ (\E i \in 1..Len(logs) : logs[i].chain > 0) => at > 0
           /\ (\E call \in CallsMade : call[1] \in {"search", "extract", "reason"})
                 => at > 0
           /\ at > 0 =>
                 /\ \A i \in 1..Len(snapshots[at].logs) :
                       snapshots[at].logs[i].chain = 0
                 /\ snapshots[at].status = "researching"
                 /\ snapshots[at].completedChains = <<>>

\* A search is in flight for a chain whose plan the stream already shows
C18_Witness ==
    /\ FirstPlanned > 0
    /\ \E call \in inflight : call[1] = "search"
    /\ \E i \in 1..Len(logs) : logs[i].msg = "chain"
    /\ Len(plan) >= 2

\* C19: a snapshot of status completed has report, investigation and
\* totalTokens; a snapshot of status error has an error message that is not
\* empty; a snapshot of any other status has none of report, investigation,
\* totalTokens, reportId and error.
C19_TerminalSnapshots ==
    \A i \in 1..Len(snapshots) :
        LET snap == snapshots[i]
        IN  /\ snap.status = "completed" =>
                 /\ snap.report # <<>> /\ snap.investigation # <<>>
                 /\ snap.totalTokens # <<>>
                 /\ snap.error = <<>>
            /\ snap.status = "error" => snap.error # <<>> /\ snap.error[1] # ""
            /\ ~Terminal(snap.status) =>
                 /\ snap.report = <<>> /\ snap.investigation = <<>>
                 /\ snap.totalTokens = <<>> /\ snap.reportId = <<>>
                 /\ snap.error = <<>>

\* The stream of a completed run shows a snapshot published while the
\* report was already synthesized and being saved, and the completed one
C19_Witness ==
    /\ LastSnapshot.status = "completed"
    /\ LastSnapshot.reportId # <<>>
    /\ \E i \in 1..Len(snapshots) :
         /\ snapshots[i].status = "researching"
         /\ snapshots[i].logs # <<>>
         /\ snapshots[i].logs[Len(snapshots[i].logs)].msg = "saving"

\* C20: the error snapshot holds the plan, the completedChains and the logs
\* of the snapshot before it, and differs from the last snapshot published
\* before the failure only by one more log line, the status and the error,
\* at whichever stage the run failed.
C20_ErrorKeepsProgress ==
    \A i \in 1..Len(snapshots) :
        snapshots[i].status = "error" =>
            /\ i > 2
            /\ LET failed == snapshots[i]
                   prev == snapshots[i - 1]
                   before == snapshots[i - 2]
               IN  /\ prev.status # "error" /\ before.status = prev.status
                   /\ failed.planned = prev.planned
                   /\ failed.completedChains = prev.completedChains
                   /\ IsPrefix(prev.logs, failed.logs)
                   /\ failed.planned = before.planned
                   /\ failed.completedChains = before.completedChains
                   /\ failed.logs =
                         Append(before.logs,
                                LogEntry("analysis_progress", "error", 0, 0, 0, 0))
                   /\ failed.report = before.report
                   /\ failed.investigation = before.investigation

\* The run failed at synthesis, after every chain of its plan completed and
\* facts were found
C20_Witness ==
    /\ LastSnapshot.status = "error"
    /\ SynthCall \in DOMAIN ret
    /\ Len(LastSnapshot.completedChains) > ChainLimit
    /\ FactsFound > 0

\* The number of line feeds among the bytes the reader has received
LinesReceived ==
    Cardinality({i \in 1..Len(channel.received) : channel.received[i] = "\n"})

\* The bytes received after the last line feed
PartialLine ==
    LET feeds == {i \in 1..Len(channel.received) : channel.received[i] = "\n"}
        last == IF feeds = {} THEN 0 ELSE CHOOSE i \in feeds : \A j \in feeds : j <= i
    IN  SubSeq(channel.received, last + 1, Len(channel.received))

\* C21 as stated: however the bytes are split into chunks, the reader has
\* yielded exactly the values written, in write order, for the lines it has
\* received completely, and keeps the bytes of an incomplete line unparsed.
C21_YieldsWritten ==
    channel.open =>
        /\ channel.yielded = [i \in 1..LinesReceived |-> channel.written[i]]
        /\ Encode(channel.buffer) \o channel.held = PartialLine

\* C21 amended: however the bytes are split into chunks, the reader has
\* yielded, in write order, JSON.parse(JSON.stringify(value)) of each value
\* whose line it has received completely (a Date arrives as a string), keeps
\* the bytes of an incomplete line unparsed in its buffer, and has yielded
\* every written value once it has reached the end of the stream.
C21_StreamRoundTrip ==
    channel.open =>
        /\ channel.yielded = [i \in 1..LinesReceived |-> ToJSON(channel.written[i])]
        /\ Encode(channel.buffer) \o channel.held = PartialLine
        /\ channel.done =>
              /\ Len(channel.yielded) = Len(channel.written)
              /\ channel.buffer = <<>>

\* The reader has yielded a value and holds an incomplete line that ends in
\* the first byte of a two-byte character, while a further line waits
C21_Witness ==
    /\ channel.open
    /\ Len(channel.yielded) >= 1
    /\ channel.buffer # <<>> /\ channel.held = <<"C3">>
    /\ Len(channel.written) > Len(channel.yielded) + 1

RECURSIVE SumOf(_)
SumOf(seq) == IF seq = <<>> THEN 0 ELSE Head(seq) + SumOf(Tail(seq))

\* The plan-summary logs and the node-completion logs that found facts
PlanSummaryLogs == {i \in 1..Len(logs) : logs[i].msg = "planned"}
FoundFactsLogs ==
    {i \in 1..Len(logs) : /\ logs[i].type = "analysis_progress"
                          /\ logs[i].msg = "completed" /\ logs[i].n > 0}

\* C22: in a completed run the logs give the totals of the investigation:
\* the step counts of the one plan-summary log sum to totalNodes, the
\* node-completion logs with a positive findings count number completedNodes,
\* and the totals the report page derives from the plan and completedChains
\* of the last snapshot are the same two numbers.
C22_LogReplayTotals ==
    status = "completed" =>
        /\ Cardinality(PlanSummaryLogs) = 1
        /\ \A i \in PlanSummaryLogs :
             SumOf(logs[i].steps) = investigation[1].totalNodes
        /\ Cardinality(FoundFactsLogs) = investigation[1].completedNodes
        /\ LastSnapshot.logs = logs
        /\ LastSnapshot.planned
        /\ Derived(LastSnapshot).totalNodes = investigation[1].totalNodes
        /\ Derived(LastSnapshot).completedNodes = investigation[1].completedNodes

\* A completed run of several chains that finished out of plan order, with
\* some nodes with facts and some without
C22_Witness ==
    /\ status = "completed"
    /\ Len(plan) > ChainLimit
    /\ completedChains # [c \in 1..Len(plan) |-> c]
    /\ 0 < investigation[1].completedNodes
    /\ investigation[1].completedNodes < investigation[1].totalNodes

\* The errors of the retryable class: timeouts, connection resets, closed
\* and socket failures
RetryableClass ==
    {TimeoutError, ResetError, ClosedError, SocketCauseError, ThrownSocketString}

RegularNodeLogs == {"node", "query", "found", "extracting", "completed"}

\* The logs about node k of chain c that tell of a failure
WarningLogs(c, k) ==
    {i \in 1..Len(logs) :
        /\ logs[i].chain = c /\ logs[i].node = k
        /\ logs[i].msg \notin RegularNodeLogs}

ExtractionFailed(c, k) ==
    /\ ExtractCall(c, k) \in DOMAIN ret
    /\ ret[ExtractCall(c, k)] \in {"throw", "noarray", "badjson"}

ReasoningFailed(c, k) ==
    ReasonCall(c, k) \in DOMAIN ret /\ ret[ReasonCall(c, k)] = "throw"

\* C24: every degraded failure is visible in the logs: a failed search has
\* its error-flagged search_results log, and a failed or unparseable fact
\* extraction and a failed reasoning call each have a warning log of their
\* node beside the search warnings.
C24_DegradedFailuresLogged ==
    \A node \in PlanNodes :
        LET c == node[1]
            k == node[2]
            searchWarnings ==
                {i \in WarningLogs(c, k) : logs[i].type = "search_results"}
        IN  /\ \A q \in 1..Len(plan[c][k]) :
                 (/\ SearchCall(c, k, q) \in DOMAIN ret
                  /\ ret[SearchCall(c, k, q)] = "fail")
                    => \E i \in searchWarnings :
                         logs[i] = LogEntry("search_results", "failed", c, k,
                                            plan[c][k][q], 0)
            /\ ExtractionFailed(c, k) => WarningLogs(c, k) \ searchWarnings # {}
            /\ ReasoningFailed(c, k) => WarningLogs(c, k) \ searchWarnings # {}

\* The logs of the given kinds about question text x of node k of chain c
SearchLogs(c, k, x, msgs) ==
    {i \in 1..Len(logs) :
        /\ logs[i].chain = c /\ logs[i].node = k
        /\ logs[i].question = x /\ logs[i].msg \in msgs}
QueryLogs(c, k, x) == SearchLogs(c, k, x, {"query"})
ResultsLogs(c, k, x) == SearchLogs(c, k, x, {"found", "failed"})

\* The places of node.questions that hold the text x, those whose search
\* has started, has settled, and has failed
Occurrences(c, k, x) == {q \in 1..Len(plan[c][k]) : plan[c][k][q] = x}
SearchesStarted(c, k, x) ==
    {q \in Occurrences(c, k, x) : SearchCall(c, k, q) \in inflight \cup DOMAIN ret}
SearchesReturned(c, k, x) ==
    {q \in Occurrences(c, k, x) : SearchCall(c, k, q) \in DOMAIN ret}
SearchesFailed(c, k, x) ==
    {q \in SearchesReturned(c, k, x) : ret[SearchCall(c, k, q)] = "fail"}

\* executeNode has returned for node k of chain c
NodeCompleted(c, k) ==
    \E i \in 1..Len(logs) :
        logs[i].msg = "completed" /\ logs[i].chain = c /\ logs[i].node = k

\* The questions of the node whose search returned a result with content
Hits(c, k) ==
    SelectSeq([q \in 1..Len(plan[c][k]) |-> q],
              LAMBDA q : /\ SearchCall(c, k, q) \in DOMAIN ret
                         /\ ret[SearchCall(c, k, q)] = "hit")

\* C25 as stated: for every question of an executed node the logs hold
\* exactly one search_query and exactly one search_results log with the
\* node's id and the question, the query log first, and the results log has
\* the error flag exactly when the search failed.
C25_OneLogPerQuestion ==
    \A node \in PlanNodes :
        LET c == node[1]
            k == node[2]
        IN  NodeCompleted(c, k) =>
              \A q \in 1..Len(plan[c][k]) :
                LET x == plan[c][k][q]
                IN  /\ Cardinality(QueryLogs(c, k, x)) = 1
                    /\ Cardinality(ResultsLogs(c, k, x)) = 1
                    /\ \A i \in QueryLogs(c, k, x), j \in ResultsLogs(c, k, x) :
                         /\ i < j
                         /\ logs[j].msg = "failed"
                              <=> ret[SearchCall(c, k, q)] = "fail"

\* C25: every search that has started has its search_query log and every
\* search that has returned has its search_results log, so that a question
\* text that a node asks m times has m logs of each kind once the node is
\* executed; each results log follows a query log of its own; as many
\* results logs carry the error flag as searches failed, and they count zero
\* results; the node goes on with the results of its other searches.
C25_SearchLogProtocol ==
    \A node \in PlanNodes :
        LET c == node[1]
            k == node[2]
        IN  /\ \A x \in Range(plan[c][k]) :
                 LET Q == QueryLogs(c, k, x)
                     R == ResultsLogs(c, k, x)
                 IN  /\ Cardinality(Q) = Cardinality(SearchesStarted(c, k, x))
                     /\ Cardinality(R) = Cardinality(SearchesReturned(c, k, x))
                     /\ Cardinality({i \in R : logs[i].msg = "failed"})
                           = Cardinality(SearchesFailed(c, k, x))
                     /\ \A i \in R :
                          /\ logs[i].type = "search_results"
                          /\ logs[i].n = (IF logs[i].msg = "failed" THEN 0 ELSE 1)
                          /\ Cardinality({j \in Q : j < i})
                                >= Cardinality({j \in R : j <= i})
                     /\ NodeCompleted(c, k) =>
                          SearchesReturned(c, k, x) = Occurrences(c, k, x)
            /\ NodeCompleted(c, k) =>
                 chain[c].results[k].searchResults = Hits(c, k)

\* A node that asked the same question more than once has been executed; one
\* of its searches failed and another returned a result with content
C25_Witness ==
    \E node \in PlanNodes :
        LET c == node[1]
            k == node[2]
        IN  /\ NodeCompleted(c, k)
            /\ \E x \in Range(plan[c][k]) :
                 /\ Cardinality(Occurrences(c, k, x)) > 1
                 /\ SearchesFailed(c, k, x) # {}
                 /\ SearchesFailed(c, k, x) # Occurrences(c, k, x)
            /\ Hits(c, k) # <<>>

\* Nothing failed: the planner's text held topics, every search made returned
\* a result with content, every extraction made returned one fact, and the
\* synthesis call returned a report the schema accepts
HappyCalls ==
    /\ PlanCall \in DOMAIN ret /\ ret[PlanCall].kind = "topics"
    /\ \A call \in DOMAIN ret :
         /\ call[1] = "search" => ret[call] = "hit"
         /\ call[1] = "extract" => ret[call] = "facts1"
    /\ SynthCall \in DOMAIN ret /\ ret[SynthCall] = "valid"

HappyEnd ==
    /\ status = "completed"
    /\ investigation # <<>> /\ report # <<>> /\ totalTokens # <<>>
    /\ investigation[1].totalNodes = Cardinality(PlanNodes)
    /\ investigation[1].completedNodes = Cardinality(PlanNodes)
    /\ report[1] = ValidatedReport
    /\ totalTokens[1] > 0

\* C26 as stated: a finished run in which the plan was valid, every search
\* returned a result with content, every extraction a non-empty array and
\* the synthesis a valid report is completed, with completedNodes =
\* totalNodes = the number of planned nodes, the synthesis call's report
\* and totalTokens > 0.
C26_HappyPathAnyPlan == (pc = "done" /\ HappyCalls) => HappyEnd

\* C26: the same, for plans whose nodes each ask at least one question.
C26_HappyPath ==
    (/\ pc = "done"
     /\ HappyCalls
     /\ \A node \in PlanNodes : plan[node[1]][node[2]] # <<>>) => HappyEnd

\* A happy run of a plan with more chains than chainLimit admits has ended
C26_Witness ==
    /\ pc = "done"
    /\ HappyCalls
    /\ \A node \in PlanNodes : plan[node[1]][node[2]] # <<>>
    /\ Cardinality(PlanNodes) > ChainLimit
    /\ HappyEnd

\* The stage call raised
Raised(call) ==
    /\ call \in DOMAIN ret
    /\ ret[call] = (IF call = PlanCall THEN [kind |-> "throw", topics |-> <<>>]
                    ELSE IF call = QuoteCall THEN "fail" ELSE "throw")

\* The calls a run can have made when the stage call is made
CallsUpTo(call) ==
    IF call = PlanCall THEN {PlanCall}
    ELSE IF call = QuoteCall THEN {PlanCall, QuoteCall}
    ELSE CallsMade \ {SaveCall}

LogsOf(msg) == {i \in 1..Len(logs) : logs[i].msg = msg}

TerminalSnapshots == {i \in 1..Len(snapshots) : Terminal(snapshots[i].status)}

\* The stream is closed and its last snapshot is its only terminal one
Ended ==
    /\ pc = "done" /\ closed
    /\ TerminalSnapshots = {Len(snapshots)}
    /\ LastSnapshot.status = status

\* C28: when every capability call returns or fails, every run, whatever its
\* plan and whichever of its calls fail, comes to publish one terminal
\* snapshot (completed or error) as its last and to close the stream, and
\* stays so.
C28_Termination == <>[]Ended

\* A run has ended completed although a search failed, an extraction raised
\* and the report could not be saved
C28_Witness ==
    /\ Ended
    /\ status = "completed"
    /\ \E call \in DOMAIN ret : call[1] = "search" /\ ret[call] = "fail"
    /\ \E call \in DOMAIN ret : call[1] = "extract" /\ ret[call] = "throw"
    /\ SaveFailed

\* C29: once stream.done has closed the stream, no step of the run appends
\* a log to the state or writes a snapshot to the stream.
C29_SilentAfterDone ==
    [][closed => (logs' = logs /\ snapshots' = snapshots)]_vars

Queued(call) == call \in Range(limQueue)
Dispatched(call) == call \in limActive \/ call \in DOMAIN ret

\* The slots of the call limiter are held by the calls in flight and by
\* nothing else; a call waits in the queue only while every slot is taken,
\* and holds no slot while it waits; a chain that waits for its calls holds
\* a slot of the chain limiter
SlotsHeldByCalls ==
    /\ limActive = inflight
    /\ Cardinality(limActive) <= CallLimit
    /\ limQueue # <<>> => Cardinality(limActive) = CallLimit
    /\ \A i, j \in 1..Len(limQueue) : limQueue[i] = limQueue[j] => i = j
    /\ \A call \in Range(limQueue) : ~Dispatched(call)
    /\ Cardinality(chainActive) <= ChainLimit
    /\ \A c \in 1..Len(plan) :
         chain[c].phase \in {"search", "extract", "reason"} =>
            /\ c \in chainActive
            /\ \E call \in Range(limQueue) \cup limActive : call[2] = c

\* A call leaves the queue of the call limiter only by being dispatched
LeavesByDispatch ==
    \A call \in Range(limQueue) :
        call \notin Range(limQueue') => call \in limActive' \cup DOMAIN ret'

\* C30: the slots of the call limiter are held by calls and never by a
\* chain, no call is requested twice or while it holds a slot, and every
\* call that waits in the queue of the call limiter is dispatched (it leaves
\* the queue only when it is dispatched, and the queue comes to be empty),
\* also when both chain slots are taken and more calls are pending than the
\* limiter has slots.
C30_LimitersCompose ==
    /\ []SlotsHeldByCalls
    /\ [][LeavesByDispatch]_vars
    /\ []<>(limQueue = <<>>)

\* Both chain slots are taken, every slot of the call limiter is held, and
\* a search of one chain and the extraction call of the other wait
C30_Witness ==
    /\ Cardinality(chainActive) = ChainLimit
    /\ Cardinality(limActive) = CallLimit
    /\ \E i, j \in 1..Len(limQueue) :
         /\ limQueue[i][1] = "search" /\ limQueue[j][1] = "extract"
         /\ limQueue[i][2] # limQueue[j][2]

\* The generation calls node k of chain c has made so far
GenerationCalls(c, k) == {ExtractCall(c, k), ReasonCall(c, k)} \cap CallsMade

\* Every search of the node has settled and one of them gave a result with
\* content
ResultsAggregated(c, k) ==
    /\ \A q \in 1..Len(plan[c][k]) : SearchCall(c, k, q) \in DOMAIN ret
    /\ \E q \in 1..Len(plan[c][k]) :
         /\ SearchCall(c, k, q) \in DOMAIN ret
         /\ ret[SearchCall(c, k, q)] = "hit"

\* The extraction response of the node gave at least one fact
FindingsExtracted(c, k) ==
    /\ ExtractCall(c, k) \in DOMAIN ret
    /\ ret[ExtractCall(c, k)] = "facts1"

\* C31: a node makes its fact-extraction call if and only if its searches
\* aggregated at least one result with content, and its reasoning call if and
\* only if the extraction gave at least one finding; so a node makes 0, 1 or
\* 2 generation calls, the reasoning call is made after the extraction call
\* has returned, and a node recorded without findings has the empty reasoning.
C31_GenerationGated ==
    \A n \in PlanNodes :
        LET c == n[1]
            k == n[2]
        IN  /\ ExtractCall(c, k) \in CallsMade <=> ResultsAggregated(c, k)
            /\ ReasonCall(c, k) \in CallsMade <=> FindingsExtracted(c, k)
            /\ ReasonCall(c, k) \in CallsMade => ExtractCall(c, k) \in DOMAIN ret
            /\ Cardinality(GenerationCalls(c, k)) \in 0..2
            /\ k \in 1..Len(chain[c].updated) =>
                 /\ chain[c].updated[k].findings = 0
                      => chain[c].updated[k].reasoning = NoReasoning
                 /\ chain[c].updated[k].findings > 0
                      => ReasonCall(c, k) \in DOMAIN ret

\* A chain of two recorded nodes: the first made both generation calls, the
\* second made the extraction call alone and has the empty reasoning
C31_Witness ==
    /\ Len(plan) = 1 /\ Len(plan[1]) = 2
    /\ Len(chain[1].updated) = 2
    /\ GenerationCalls(1, 1) = {ExtractCall(1, 1), ReasonCall(1, 1)}
    /\ ReasonCall(1, 1) \in DOMAIN ret
    /\ GenerationCalls(1, 2) = {ExtractCall(1, 2)}
    /\ chain[1].updated[2].reasoning = NoReasoning

\* The generation calls of the recorded nodes of chain c that gave a response
RecordedResponses(c) ==
    {call \in Responded :
        /\ call[1] \in {"extract", "reason"}
        /\ call[2] = c
        /\ call[3] \in 1..Len(chain[c].updated)}

\* The reasoning call of node k of chain c was made and failed
ReasoningCallFailed(c, k) ==
    /\ ReasonCall(c, k) \in DOMAIN ret
    /\ ret[ReasonCall(c, k)] = "throw"

\* C32: when the reasoning call of a node fails after facts were extracted,
\* the node is recorded with the extracted facts, its reasoning is the default
\* sentence built from the number of facts and the node's intent, the node
\* counts as completed, and the usage of the extraction call is part of the
\* usage the chain adds for the node.
C32_ReasoningFallback ==
    \A n \in PlanNodes :
        LET c == n[1]
            k == n[2]
        IN  /\ chain[c].usage.inputTokens + chain[c].usage.outputTokens
                 = TokensOf(RecordedResponses(c))
            /\ ReasoningCallFailed(c, k) =>
                 /\ k \in 1..Len(chain[c].updated)
                 /\ chain[c].phase # "rejected"
                 /\ FindingsExtracted(c, k)
                 /\ chain[c].updated[k].findings = 1
                 /\ chain[c].updated[k].reasoning
                      = DefaultReasoning(1, Intent(c, k))
                 /\ chain[c].results[k].success
                 /\ CompletedIn(chain[c].updated) >= 1
                 /\ ExtractCall(c, k) \in RecordedResponses(c)
                 /\ ReasonCall(c, k) \notin RecordedResponses(c)

\* The reasoning call of the second node of a chain failed, and the chain has
\* finished with both nodes recorded
C32_Witness ==
    /\ Len(plan) = 1 /\ Len(plan[1]) = 2
    /\ ReasoningCallFailed(1, 2)
    /\ chain[1].phase = "done"
    /\ chain[1].updated[2].reasoning = DefaultReasoning(1, Intent(1, 2))
    /\ chain[1].usage = AddUsage(AddUsage(Usage(ExtractCall(1, 1)),
                                          Usage(ExtractCall(1, 2))),
                                 Usage(ReasonCall(1, 1)))

\* The updated chain of chain c holds, in plan order, the planned nodes it has
\* executed, each with its planned id, intent and questions
KeepsPlannedNodes(c) ==
    /\ Len(chain[c].updated) <= Len(plan[c])
    /\ chain[c].phase = "done" => Len(chain[c].updated) = Len(plan[c])
    /\ chain[c].phase # "queued" => chain[c].topic = topics[c]
    /\ \A k \in 1..Len(chain[c].updated) :
         /\ chain[c].updated[k].id = NodeId(c, k)
         /\ chain[c].updated[k].intent = Intent(c, k)
         /\ chain[c].updated[k].questions = plan[c][k]
         /\ chain[c].updated[k]
              = [PlannedNode(St, c, k) EXCEPT
                    !.findings = chain[c].updated[k].findings,
                    !.reasoning = chain[c].updated[k].reasoning]

ExecutionKeepsPlan == \A c \in 1..Len(plan) : KeepsPlannedNodes(c)

\* A step leaves the recorded plan and every node already executed as they
\* are, and a finished chain gets no further node
ExecutedOnce ==
    /\ planned => (planned' /\ plan' = plan /\ topics' = topics)
    /\ \A c \in DOMAIN chain :
         /\ IsPrefix(chain[c].updated, chain'[c].updated)
         /\ chain[c].phase = "done" => chain'[c] = chain[c]

\* C33: the chain executeTopicChain returns has the planned chain's topic and
\* the planned nodes in plan order, each with its planned id, intent and
\* questions; a node's findings and reasoning are set once, when the node is
\* executed, and never changed; the plan recorded in the state is never
\* changed.
C33_OnlyFindingsAndReasoning ==
    /\ []ExecutionKeepsPlan
    /\ [][ExecutedOnce]_vars

\* A chain of several nodes has finished with a node that has findings and
\* reasoning and a node that has neither
C33_Witness ==
    /\ \E c \in 1..Len(plan) :
         /\ chain[c].phase = "done"
         /\ Len(plan[c]) >= 2
         /\ \E j, k \in 1..Len(chain[c].updated) :
              /\ chain[c].updated[j].findings > 0
              /\ chain[c].updated[j].reasoning # NoReasoning
              /\ chain[c].updated[k].findings = 0

\* The chains the completed snapshot lists in completedChains, as the updated
\* chains their tasks pushed
PushedChains(snapshot) ==
    [i \in 1..Len(snapshot.completedChains) |->
        chain[snapshot.completedChains[i]].updated]

\* C34: in the completed snapshot investigation.topicChains holds the executed
\* chains in plan order and completedChains holds them in the order in which
\* they finished; both hold every chain of the plan exactly once, with the
\* same nodes and findings.
C34_PlanOrderAndCompletionOrder ==
    status = "completed" =>
        LET last == LastSnapshot
            topicChains == last.investigation[1].topicChains
            pushed == PushedChains(last)
        IN  /\ last.status = "completed"
            /\ Len(topicChains) = Len(plan)
            /\ Len(last.completedChains) = Len(plan)
            /\ Range(last.completedChains) = 1..Len(plan)
            /\ \A c \in 1..Len(plan) :
                 /\ Len(topicChains[c]) = Len(plan[c])
                 /\ \A k \in 1..Len(plan[c]) : topicChains[c][k].id = NodeId(c, k)
                 /\ \E i \in 1..Len(pushed) :
                      /\ last.completedChains[i] = c
                      /\ pushed[i] = topicChains[c]
            /\ \A i \in 1..Len(snapshots) :
                 IsPrefix(snapshots[i].completedChains, last.completedChains)

\* A completed run of more chains than the chain limiter admits, in which the
\* last chain of the plan finished first and a chain has findings
C34_Witness ==
    /\ status = "completed"
    /\ Len(plan) > ChainLimit
    /\ completedChains[1] # 1
    /\ completedChains # [c \in 1..Len(plan) |-> c]
    /\ \E c \in 1..Len(plan) : CompletedIn(chain[c].updated) > 0
    /\ \E i \in 1..Len(snapshots) :
         Len(snapshots[i].completedChains) = 1

\* The searches and node-level generation calls the run has made
NodeCalls == {call \in CallsMade : call[1] \in {"search", "extract", "reason"}}

\* synthesizeReport has been called
SynthesisBegun ==
    \/ SynthCall \in CallsMade
    \/ \E i \in 1..Len(logs) : logs[i].msg \in {"synth", "report"}

\* C35: the synthesis call is made, and the final_report log is added, only
\* when completedChains holds every chain of the plan; once synthesis has
\* begun no search and no node-level generation call is waiting, in flight or
\* newly made.
C35_SynthesisAfterChains ==
    /\ [](SynthesisBegun =>
            /\ Range(completedChains) = 1..Len(plan)
            /\ Len(completedChains) = Len(plan)
            /\ \A c \in 1..Len(plan) : chain[c].phase = "done"
            /\ NodeCalls \subseteq DOMAIN ret
            /\ chainQueue = <<>> /\ chainActive = {})
    /\ [][SynthesisBegun => NodeCalls' = NodeCalls]_vars

\* The synthesis call is in flight after several chains ran, each with its
\* searches and generation calls
C35_Witness ==
    /\ SynthCall \in inflight
    /\ Len(plan) > ChainLimit
    /\ \E call \in NodeCalls : call[1] = "reason"
    /\ \E call \in NodeCalls : call[1] = "search" /\ ret[call] = "fail"

\* The most attempts for which the backoff formula is evaluated
MaxAttempts == 6

\* C36: a request timeout on attempt 1 or 2 is followed by a wait of
\* min(1000 * 2^(attempt-1), 10000) ms, 1000 ms after attempt 1 and 2000 ms
\* after attempt 2, and by another attempt; no wait is longer than 10000 ms;
\* an empty completion text is raised at once, with no wait and no further
\* attempt.
C36_RetryClassification ==
    /\ \A a \in 1..MaxAttempts :
         /\ WaitTime(a) = Min(1000 * 2 ^ (a - 1), 10000)
         /\ WaitTime(a) <= 10000
    /\ WaitTime(1) = 1000 /\ WaitTime(2) = 2000
    /\ request.phase # "none" =>
         \A i \in 1..Len(request.errors) :
            /\ (request.errors[i] = TimeoutError /\ i < Retries) =>
                 /\ Len(request.waits) >= i
                 /\ request.waits[i] = WaitTime(i)
                 /\ request.waits[i] = (IF i = 1 THEN 1000 ELSE 2000)
                 /\ \/ request.phase = "waiting" /\ request.attempt = i
                    \/ request.attempt > i
            /\ request.errors[i] = EmptyResponse =>
                 /\ request.phase = "raised"
                 /\ request.attempt = i
                 /\ Len(request.errors) = i
                 /\ Len(request.waits) = i - 1
                 /\ request.raised = << EmptyResponse.message >>
                 /\ request.result = << >>

\* The first attempt timed out, the second was made after 1000 ms and got an
\* empty completion, which was raised with an attempt left
C36_Witness ==
    /\ request.phase = "raised"
    /\ request.errors = << TimeoutError, EmptyResponse >>
    /\ request.waits = << 1000 >>
    /\ request.attempt = 2

\* The two runs: the one the variables hold and the one in peer
Runs == {St, peer.state}

\* The generation and search calls of both runs that are in flight
InFlightOverall == Cardinality(inflight) + Cardinality(peer.state.inflight)

\* How many logs of run s carry the message msg for node k of chain c
LogCount(s, msg, c, k) ==
    Cardinality({i \in 1..Len(s.logs) :
                    /\ s.logs[i].msg = msg
                    /\ s.logs[i].chain = c /\ s.logs[i].node = k})

\* The searches of node k of chain c that run s has started, and those that
\* have settled
StartedIn(s, c, k) ==
    {q \in 1..Len(s.plan[c][k]) : SearchCall(c, k, q) \in s.inflight \cup DOMAIN s.ret}
SettledIn(s, c, k) ==
    {q \in 1..Len(s.plan[c][k]) : SearchCall(c, k, q) \in DOMAIN s.ret}

\* The generation calls of run s that gave a response
RespondedIn(s) ==
    {call \in DOMAIN s.ret :
        \/ call[1] = "plan" /\ s.ret[call].kind # "throw"
        \/ call[1] \in {"extract", "reason", "synth"} /\ s.ret[call] # "throw"}

\* The logs, chains and tokens of run s are those of its own plan and calls,
\* and its stream carries nothing else
KeepsToItself(s) ==
    /\ LogCount(s, "start", 0, 0) <= 1
    /\ LogCount(s, "planned", 0, 0) <= 1
    /\ \A i \in 1..Len(s.logs) :
         /\ s.logs[i].chain \in 0..Len(s.plan)
         /\ s.logs[i].chain > 0 => s.logs[i].node \in 0..Len(s.plan[s.logs[i].chain])
    /\ \A c \in 1..Len(s.plan) :
         /\ LogCount(s, "chain", c, 0) <= 1
         /\ \A k \in 1..Len(s.plan[c]) :
              /\ LogCount(s, "node", c, k) <= 1
              /\ LogCount(s, "query", c, k) = Cardinality(StartedIn(s, c, k))
              /\ LogCount(s, "failed", c, k) + LogCount(s, "found", c, k)
                   = Cardinality(SettledIn(s, c, k))
              /\ LogCount(s, "completed", c, k) <= 1
    /\ Len(s.completedChains) = Cardinality(Range(s.completedChains))
    /\ \A c \in Range(s.completedChains) :
         c \in 1..Len(s.plan) /\ s.chain[c].phase = "done"
    /\ \A i \in 1..Len(s.snapshots) :
         /\ IsPrefix(s.snapshots[i].logs, s.logs)
         /\ IsPrefix(s.snapshots[i].completedChains, s.completedChains)
    /\ s.status = "completed" => s.totalTokens = << TokensOf(RespondedIn(s)) >>

\* C37: the call limiter is one for the process and the chain limiter one
\* for each run: with two runs at once, at most CallLimit generation and
\* search calls are in flight over both runs, each run executes at most
\* ChainLimit chains at a time, and each run's logs, completed chains and
\* token total are its own.
C37_SharedCallLimiter ==
    peer.run # 0 =>
        /\ InFlightOverall <= CallLimit
        /\ Cardinality(limActive) <= CallLimit
        /\ inflight \subseteq limActive
        /\ {OfPeer(call) : call \in peer.state.inflight} \subseteq limActive
        /\ \A s \in Runs :
             /\ Cardinality(s.chainActive) <= ChainLimit
             /\ KeepsToItself(s)

\* Both runs have searches in flight, every slot of the call limiter is
\* taken and a search waits for a slot
C37_Witness ==
    /\ peer.run # 0
    /\ InFlightOverall = CallLimit
    /\ inflight # {} /\ peer.state.inflight # {}
    /\ limQueue # <<>>
    /\ \E call \in inflight : call[1] = "search"
    /\ \E call \in peer.state.inflight : call[1] = "search"

\* The plan has been recorded and has no node: no chain, or chains without
\* steps
PlanWithoutNodes == planned /\ \A c \in 1..Len(plan) : plan[c] = <<>>

\* The synthesis call gave a response
SynthesisSucceeded ==
    SynthCall \in DOMAIN ret /\ ret[SynthCall] # "throw"

\* C38: a run whose plan has no chains, or only chains without nodes, makes
\* no search and no node-level generation call, never waits for a chain, and
\* calls the synthesis with zero facts; when the quote fetch and the
\* synthesis succeed it ends completed, after a researching snapshot, with
\* investigation.totalNodes = investigation.completedNodes = 0.
C38_EmptyPlanCompletes ==
    PlanWithoutNodes =>
        /\ NodeCalls = {}
        /\ pc \in {"quote", "synth", "saving", "done"}
        /\ pc = "synth" => SynthCall \in inflight \cup Range(limQueue)
        /\ (pc # "quote" /\ ~QuoteFailed) => Len(completedChains) = Len(plan)
        /\ AllFindings(St, Len(plan)) = 0
        /\ status = "error" => (QuoteFailed \/ (SynthCall \in DOMAIN ret
                                                /\ ret[SynthCall] = "throw"))
        /\ (pc = "done" /\ ~QuoteFailed /\ SynthesisSucceeded) =>
             /\ status = "completed"
             /\ LastSnapshot.status = "completed"
             /\ \E i \in 1..Len(snapshots) : snapshots[i].status = "researching"
             /\ LastSnapshot.investigation[1].totalNodes = 0
             /\ LastSnapshot.investigation[1].completedNodes = 0
             /\ LastSnapshot.investigation[1].topicChains
                  = [c \in 1..Len(plan) |-> <<>>]
             /\ LastSnapshot.report[1].kind = "fallback"
                  => LastSnapshot.report[1].facts = 0

\* A run whose plan has no chain has completed with the fallback report
C38_Witness ==
    /\ planned /\ plan = <<>>
    /\ status = "completed"
    /\ investigation[1].totalNodes = 0
    /\ report[1].kind = "fallback"


----------------------------------------------------------------------------
\* The report page

\* The state of the stream the page consumed last
Consumed == snapshots[page.read]

\* The page has built its view from the state it consumed last
ViewBuilt ==
    /\ page # NoPage
    /\ page.read > 0
    /\ Consumed.planned
    /\ Consumed.status # "error"

\* The view's entry for planned chain c, as the chain's own results give it
OwnEntry(c) ==
    IF c \in Range(Consumed.completedChains) THEN CompletedChain(c)
    ELSE PlannedChain(c)

\* C39: for every state of the stream that carries a plan, the view the
\* page builds has one entry per planned chain in plan order, and the entry
\* of a planned chain is that chain's own executed result once the chain is
\* in completedChains and the planned chain before that, whatever the order
\* of completion and whatever topics the planner gave.
C39_ViewHoldsOwnResults ==
    ViewBuilt =>
        /\ Len(page.current[1].topicChains) = Len(plan)
        /\ \A c \in 1..Len(plan) : page.current[1].topicChains[c] = OwnEntry(c)

\* The ratio progress of the investigation the page holds
RatioProgress(p) ==
    IF p = NoPage \/ p.investigation = <<>> THEN 0
    ELSE ProgressValue(p.investigation[1])

\* The ratio progress never decreases
RatioGrows == RatioProgress(page') >= RatioProgress(page)

\* The page has consumed the completed state
CompletedConsumed ==
    /\ page # NoPage
    /\ page.read > 0
    /\ Consumed.status = "completed"

\* After the completed state the page shows 100
ShowsComplete == CompletedConsumed => page.progress = 100

\* C40: the progress the page derives from completedNodes / totalNodes never
\* decreases during a run, and once the page has consumed the completed
\* state the displayed progress is 100 and stays 100, also in runs in which
\* a node ended without findings.
C40_ProgressGrowsToComplete == []ShowsComplete /\ [][RatioGrows]_vars

\* The first half of C40 alone
RatioNeverDecreases == [][RatioGrows]_vars

====
